---- MODULE Spec2Model ----
(***************************************************************************)
(* A model of the freemarker.go template compiler (package parse): the     *)
(* scanner goroutine (lex.go), the unbuffered token channel, and the       *)
(* recursive-descent parser (parse.go / node.go) that consumes it.         *)
(*                                                                         *)
(* Strings are sequences of one-character strings; positions are Go's      *)
(* 0-based byte offsets.  The alphabet is ASCII, so every rune has width 1.*)
(***************************************************************************)
EXTENDS Integers, Sequences, FiniteSets, TLC

VARIABLES
    input,      \* lexer.input / Tree.text: the template text being parsed
    lx,         \* the lexer's fields: state, pos, start, width, line, parenDepth
    lpc,        \* where the lexer goroutine is: "run", "emit", "errorf", "done"
    out,        \* the item the lexer goroutine is sending while parked
    closed,     \* whether close(l.items) has run
    buf,        \* the channel's buffer (its capacity is ChanCap)
    sent,       \* the items whose send has completed, in order
    ppc,        \* where the parser goroutine is
    received,   \* the items nextItem has returned to the parser, in order
    drained,    \* the items drain has received and dropped, in order
    requests,   \* how many receives the consumer has started
    tr,         \* the Tree being parsed and the outcome of Parse
    treeSet,    \* the shared name -> Tree map
    heap        \* nodes and slices as objects with addresses, for Copy by reference

vars == <<input, lx, lpc, out, closed, buf, sent, ppc, received, drained,
          requests, tr, treeSet, heap>>

-----------------------------------------------------------------------------
(* Bounds of the model.                                                    *)

\* the longest template text, in fragments
MaxFrags == 3

\* the longest template text parsed against a map that already has an entry
MaxSetFrags == 2

-----------------------------------------------------------------------------
(* Strings and runes.                                                      *)

eof == "eof"

Letters == {"a", "b", "c", "d", "e", "f", "g", "h", "i", "j", "k", "l", "m",
            "n", "o", "p", "q", "r", "s", "t", "u", "v", "w", "x", "y", "z",
            "E", "X", "A", "B", "C", "D", "F"}

Digits == {"0", "1", "2", "3", "4", "5", "6", "7", "8", "9"}

HexDigits == Digits \cup {"a", "b", "c", "d", "e", "f", "A", "B", "C", "D", "E", "F"}

RECURSIVE Flatten(_)
Flatten(ss) == IF ss = <<>> THEN <<>> ELSE Head(ss) \o Flatten(Tail(ss))

\* s[i:j] of Go
Slice(s, i, j) == SubSeq(s, i + 1, j)

\* strings.HasPrefix(s[pos:], sep)
HasPrefixAt(s, pos, sep) ==
    /\ pos + Len(sep) <= Len(s)
    /\ \A k \in 1..Len(sep) : s[pos + k] = sep[k]

\* pos + strings.Index(s[pos:], sep), or -1
IndexFrom(s, pos, sep) ==
    LET hits == {i \in pos..(Len(s) - Len(sep)) : HasPrefixAt(s, i, sep)}
    IN  IF hits = {} THEN -1 ELSE CHOOSE i \in hits : \A j \in hits : i <= j

leftInterpolation == <<"$", "{">>
rightInterpolation == <<"}">>
leftComment == <<"<", "#", "-", "-">>
rightComment == <<"-", "-", ">">>
startDirective == <<"<", "#">>
endDirective == <<"<", "/", "#">>

isSpace(r) == r \in {" ", "\t"}

isEndOfLine(r) == r \in {"\r", "\n"}

isAlphaNumeric(r) == r = "_" \/ r \in Letters \/ r \in Digits

-----------------------------------------------------------------------------
(* Items.                                                                  *)

NoItem == [typ |-> "none", pos |-> 0, val |-> <<>>, line |-> 0]

\* what a receive on the closed channel yields: item{}; itemError is iota 0
ZeroItem == [typ |-> "itemError", pos |-> 0, val |-> <<>>, line |-> 0]

item(typ, pos, val, line) == [typ |-> typ, pos |-> pos, val |-> val, line |-> line]

directives(word) ==
    CASE word = <<"i", "n", "c", "l", "u", "d", "e">> -> "itemDirectiveInclude"
      [] word = <<"m", "a", "c", "r", "o">> -> "itemDirectiveMacro"
      [] word = <<"i", "f">> -> "itemDirectiveIf"
      [] word = <<"e", "l", "s", "e", "i", "f">> -> "itemDirectiveElseif"
      [] word = <<"e", "l", "s", "e">> -> "itemDirectiveElse"
      [] word = <<"l", "i", "s", "t">> -> "itemDirectiveList"
      [] word = <<"a", "s">> -> "itemAs"
      [] OTHER -> "none"

comparators(word) ==
    CASE word = <<"g", "t">> -> "itemGreater"
      [] word = <<"g", "t", "e">> -> "itemGreaterEq"
      [] OTHER -> "none"

LowestPrec == 0

precedence(i) ==
    CASE i.typ = "itemLowestPrecOpt" -> LowestPrec
      [] i.typ \in {"itemEq", "itemNeq", "itemLess", "itemLessEq"} -> 3
      [] i.typ \in {"itemAdd", "itemMinus"} -> 4
      [] i.typ \in {"itemMultiply", "itemDivide"} -> 5
      [] i.typ = "itemDot" -> 6
      [] OTHER -> LowestPrec

-----------------------------------------------------------------------------
(* The lexer's rune primitives.  A lexer value l is the record of the      *)
(* fields of struct lexer that the state functions touch.  An operator     *)
(* named f_x continues f with what f has computed so far.                  *)

\* next returns the next rune in the input: [l |-> lexer after, r |-> rune]
lexer_next(l) ==
    IF l.pos >= Len(input)
    THEN [l |-> [l EXCEPT !.width = 0], r |-> eof]
    ELSE [l |-> [l EXCEPT !.width = 1, !.pos = l.pos + 1,
                          !.line = IF input[l.pos + 1] = "\n" THEN l.line + 1 ELSE l.line],
          r |-> input[l.pos + 1]]

\* backup steps back one rune
lexer_backup(l) ==
    [l EXCEPT !.pos = l.pos - l.width,
              !.line = IF l.width = 1 /\ input[l.pos - l.width + 1] = "\n"
                       THEN l.line - 1 ELSE l.line]

\* peek returns but does not consume the next rune
lexer_peek(l) ==
    LET n == lexer_next(l)
    IN  [l |-> lexer_backup(n.l), r |-> n.r]

\* ignore skips over the pending input before this point
ignore(l) == [l EXCEPT !.start = l.pos]

\* accept consumes the next rune if it's from the valid set
accept(l, valid) ==
    LET n == lexer_next(l)
    IN  IF n.r \in valid THEN [l |-> n.l, ok |-> TRUE]
        ELSE [l |-> lexer_backup(n.l), ok |-> FALSE]

\* acceptRun consumes a run of runes from the valid set
RECURSIVE acceptRun(_, _)
acceptRun(l, valid) ==
    LET n == lexer_next(l)
    IN  IF n.r \in valid THEN acceptRun(n.l, valid) ELSE lexer_backup(n.l)

(* What one run of a state function does up to the point where it either   *)
(* returns the next state or reaches a channel send: the lexer after, the  *)
(* item being sent (NoItem on a return) and the function the send is in.   *)
(* l.state is the state returned, or the place the function resumes at     *)
(* once the send has completed.                                            *)

Return(l, nextState) == [l |-> [l EXCEPT !.state = nextState], out |-> NoItem, via |-> "return"]

\* emit passes an item back to the client: the send; l.start = l.pos follows it
emit(l, t, resume) ==
    [l |-> [l EXCEPT !.state = resume],
     out |-> item(t, l.start, Slice(input, l.start, l.pos), l.line),
     via |-> "emit"]

\* errorf as it would be if the scan went on after the error token
errorf_resumes(l, msg) ==
    [l |-> [l EXCEPT !.state = "lexText"],
     out |-> item("itemError", l.start, <<msg>>, l.line),
     via |-> "errorf"]

\* errorf as it would be if the error token carried no offset
errorf_unplaced(l, msg) ==
    [l |-> [l EXCEPT !.state = "nil"],
     out |-> item("itemError", 0, <<msg>>, l.line),
     via |-> "errorf"]

\* errorf sends an error token; nil is the next state
errorf(l, msg) ==
    [l |-> [l EXCEPT !.state = "nil"],
     out |-> item("itemError", l.start, <<msg>>, l.line),
     via |-> "errorf"]

-----------------------------------------------------------------------------
(* State functions.                                                        *)

\* the text before the marker that was found, then that marker's state
lexText_found(l, nextState) ==
    IF l.pos > l.start THEN emit(l, "itemText", nextState) ELSE Return(l, nextState)

\* the four searches of lexText, in its order; with no marker left, the
\* final text and then EOF
lexText_search(l, xi, xc, xs, xe) ==
    IF xi >= 0 THEN lexText_found([l EXCEPT !.pos = xi], "lexInterpolation")
    ELSE IF xc >= 0 THEN lexText_found([l EXCEPT !.pos = xc], "lexComment")
    ELSE IF xs >= 0 THEN lexText_found([l EXCEPT !.pos = xs], "lexDirective")
    ELSE IF xe >= 0 THEN lexText_found([l EXCEPT !.pos = xe], "lexDirective")
    ELSE IF Len(input) > l.start
    THEN emit([l EXCEPT !.pos = Len(input)], "itemText", "lexText_eof")
    ELSE emit([l EXCEPT !.pos = Len(input)], "itemEOF", "nil")

\* lexText scans until an opening interpolation, comment or directive
lexText(l) ==
    lexText_search([l EXCEPT !.width = 0],
                   IndexFrom(input, l.pos, leftInterpolation),
                   IndexFrom(input, l.pos, leftComment),
                   IndexFrom(input, l.pos, startDirective),
                   IndexFrom(input, l.pos, endDirective))

\* lexText after its final text: Correctly reached EOF
lexText_eof(l) == emit(l, "itemEOF", "nil")

\* lexInterpolation scans the interpolation "${"
lexInterpolation(l) ==
    emit([l EXCEPT !.pos = l.pos + Len(leftInterpolation)], "itemLeftInterpolation", "lexExpression")

\* lexComment scans a comment
lexComment(l) ==
    LET i == IndexFrom(input, l.pos + Len(leftComment), rightComment)
    IN  IF i < 0 THEN errorf([l EXCEPT !.pos = l.pos + Len(leftComment)], "unclosed comment")
        ELSE Return(ignore([l EXCEPT !.pos = i + Len(rightComment)]), "lexText")

\* switch r := l.next()
lexExpression_r(l, r) ==
    CASE r = eof \/ isEndOfLine(r) -> errorf(l, "unclosed directive")
      [] isSpace(r) -> Return(l, "lexSpace")
      [] r = "." ->
            IF l.pos < Len(input) /\ input[l.pos + 1] \notin Digits
            THEN emit(l, "itemDot", "lexDirective")
            ELSE Return(lexer_backup(l), "lexNumber")
      [] r \in Digits -> Return(lexer_backup(l), "lexNumber")
      [] r = "\"" -> Return(l, "lexString")
      [] r = "'" -> Return(l, "lexChar")
      [] r \in {"!", "=", "<"} -> Return(lexer_backup(l), "lexComparator")
      [] isAlphaNumeric(r) /\ r \notin Digits -> Return(lexer_backup(l), "lexIdentifier")
      [] r = "(" -> emit(l, "itemLeftParen", "lexExpression_lparen")
      [] r = ")" -> emit(l, "itemRightParen", "lexExpression_rparen")
      [] r = ">" -> emit(l, "itemCloseDirective", "lexText")
      [] r = "}" -> emit(l, "itemRightInterpolation", "lexText")
      [] OTHER -> errorf(l, "unrecognized character in action")

\* lexExpression scans the expression inside an interpolation or a directive
lexExpression(l) == lexExpression_r(lexer_next(l).l, lexer_next(l).r)

\* lexExpression after the "(" is sent
lexExpression_lparen(l) == Return([l EXCEPT !.parenDepth = l.parenDepth + 1], "lexExpression")

\* lexExpression after the ")" is sent
lexExpression_rparen(l) ==
    IF l.parenDepth - 1 < 0
    THEN errorf([l EXCEPT !.parenDepth = l.parenDepth - 1], "unexpected right paren")
    ELSE Return([l EXCEPT !.parenDepth = l.parenDepth - 1], "lexExpression")

\* lexDirective from its second test on
lexDirective_end(l) ==
    IF HasPrefixAt(input, l.pos, endDirective)
    THEN emit([l EXCEPT !.pos = l.pos + Len(endDirective)], "itemEndDirective", "lexExpression")
    ELSE Return(l, "lexExpression")

\* lexDirective as it would be if it returned itself where it finds no tag
lexDirective_again(l) ==
    IF HasPrefixAt(input, l.pos, startDirective)
    THEN emit([l EXCEPT !.pos = l.pos + Len(startDirective)], "itemStartDirective", "lexDirective_end")
    ELSE IF HasPrefixAt(input, l.pos, endDirective)
    THEN lexDirective_end(l)
    ELSE Return(l, "lexDirective")

\* lexDirective scans the directive inside FTL tags
lexDirective(l) ==
    IF HasPrefixAt(input, l.pos, startDirective)
    THEN emit([l EXCEPT !.pos = l.pos + Len(startDirective)], "itemStartDirective", "lexDirective_end")
    ELSE lexDirective_end(l)

\* the loop of lexSpace: for isSpace(l.peek()) { l.next() }
RECURSIVE lexSpace_loop(_)
lexSpace_loop(l) ==
    LET p == lexer_peek(l)
    IN  IF isSpace(p.r) THEN lexSpace_loop(lexer_next(p.l).l) ELSE p.l

\* lexSpace scans a run of space characters
lexSpace(l) == emit(lexSpace_loop(l), "itemSpace", "lexDirective")

\* atTerminator reports whether the input is at a valid termination character
atTerminator(l) ==
    LET p == lexer_peek(l)
    IN  [l |-> p.l,
         ok |-> \/ isSpace(p.r) \/ isEndOfLine(p.r)
                \/ p.r \in {eof, ".", ",", "|", ":", ")", "(", ">", "}"}]

\* the default case of lexIdentifier once the word is known
lexIdentifier_word(t, word) ==
    IF ~t.ok THEN errorf(t.l, "bad character")
    ELSE IF directives(word) # "none" THEN emit(t.l, directives(word), "lexDirective")
    ELSE IF comparators(word) # "none" THEN emit(t.l, comparators(word), "lexDirective")
    ELSE IF word \in {<<"t", "r", "u", "e">>, <<"f", "a", "l", "s", "e">>}
         THEN emit(t.l, "itemBool", "lexDirective")
    ELSE emit(t.l, "itemIdentifier", "lexDirective")

\* the default case of lexIdentifier: l.backup() is done
lexIdentifier_end(l) == lexIdentifier_word(atTerminator(l), Slice(input, l.start, l.pos))

\* lexIdentifier scans an alphanumeric
RECURSIVE lexIdentifier(_)
lexIdentifier(l) ==
    LET n == lexer_next(l)
    IN  IF isAlphaNumeric(n.r) THEN lexIdentifier(n.l) ELSE lexIdentifier_end(lexer_backup(n.l))

\* switch comparator
lexComparator_emit(l, comparator) ==
    CASE comparator = <<"=", "=">> -> emit(l, "itemEq", "lexDirective")
      [] comparator = <<"!", "=">> -> emit(l, "itemNeq", "lexDirective")
      [] comparator = <<"<">> -> emit(l, "itemLess", "lexDirective")
      [] comparator = <<"<", "=">> -> emit(l, "itemLessEq", "lexDirective")
      [] OTHER -> Return(l, "lexDirective")

lexComparator_r(comparatorStart, p) ==
    IF p.r # "=" /\ p.r # " " THEN errorf(p.l, "unexpected comparator")
    ELSE IF p.r = "=" THEN lexComparator_emit(lexer_next(p.l).l, <<comparatorStart, "=">>)
    ELSE lexComparator_emit(p.l, <<comparatorStart>>)

\* lexComparator scans a comparator
lexComparator(l) == lexComparator_r(lexer_next(l).r, lexer_peek(lexer_next(l).l))

\* the loop of lexChar and lexString, up to the closing quote
RECURSIVE lexQuoted(_, _, _)
lexQuoted(l, quote, t) ==
    LET n == lexer_next(l)
        m == lexer_next(n.l)
    IN  CASE n.r = "\\" ->
                IF m.r # eof /\ m.r # "\n" THEN lexQuoted(m.l, quote, t)
                ELSE errorf(m.l, "unterminated character constant")
          [] n.r \in {eof, "\n"} -> errorf(n.l, "unterminated character constant")
          [] n.r = quote -> emit(n.l, t, "lexDirective")
          [] OTHER -> lexQuoted(n.l, quote, t)

\* lexChar scans a character constant
lexChar(l) == lexQuoted(l, "'", "itemCharConstant")

\* lexString scans a string constant
lexString(l) == lexQuoted(l, "\"", "itemStringConstant")

\* the exponent; Is it imaginary?; Next thing mustn't be alphanumeric.
scanNumber_exponent(ae) ==
    LET p == lexer_peek(accept(IF ae.ok
                               THEN acceptRun(accept(ae.l, {"+", "-"}).l, Digits)
                               ELSE ae.l,
                               {"i"}).l)
    IN  IF isAlphaNumeric(p.r) THEN [l |-> lexer_next(p.l).l, ok |-> FALSE]
        ELSE [l |-> p.l, ok |-> TRUE]

\* if l.accept(".") { l.acceptRun(digits) }
scanNumber_fraction(ad, digits) ==
    scanNumber_exponent(accept(IF ad.ok THEN acceptRun(ad.l, digits) ELSE ad.l, {"e", "E"}))

\* l.acceptRun(digits)
scanNumber_digits(l, digits) == scanNumber_fraction(accept(acceptRun(l, digits), {"."}), digits)

\* Is it hex?
scanNumber_hex(a0) ==
    IF a0.ok /\ accept(a0.l, {"x", "X"}).ok
    THEN scanNumber_digits(accept(a0.l, {"x", "X"}).l, HexDigits)
    ELSE scanNumber_digits(IF a0.ok THEN accept(a0.l, {"x", "X"}).l ELSE a0.l, Digits)

scanNumber(l) == scanNumber_hex(accept(accept(l, {"+", "-"}).l, {"0"}))

\* Complex: 1+2i. No spaces, must end in 'i'.
lexNumber_sign(p) ==
    LET s2 == scanNumber(p.l)
    IN  IF p.r \notin {"+", "-"} THEN emit(p.l, "itemNumber", "lexDirective")
        ELSE IF ~s2.ok \/ input[s2.l.pos] # "i" THEN errorf(s2.l, "bad number syntax")
        ELSE Return(s2.l, "lexDirective")

lexNumber_first(s1) ==
    IF ~s1.ok THEN errorf(s1.l, "bad number syntax") ELSE lexNumber_sign(lexer_peek(s1.l))

\* lexNumber scans a number: decimal, octal, hex, float, or imaginary
lexNumber(l) == lexNumber_first(scanNumber(l))

-----------------------------------------------------------------------------
(* Nodes (node.go).  A node is a record tagged by its NodeType; NilNode is *)
(* Go's nil Node.                                                          *)

NilNode == [type |-> "nil"]

newContent(pos) == [type |-> "NodeContent", pos |-> pos, Nodes |-> <<>>]

\* newText as it would be if it kept the text up to its first line end only
newText_firstLine(pos, text) ==
    [type |-> "NodeText", pos |-> pos,
     Text |-> IF IndexFrom(text, 0, <<"\n">>) >= 0
              THEN Slice(text, 0, IndexFrom(text, 0, <<"\n">>)) ELSE text]

newText(pos, text) == [type |-> "NodeText", pos |-> pos, Text |-> text]

newExpression(pos, optr) == [type |-> "NodeExpression", pos |-> pos, operator |-> optr, Nodes |-> <<>>]

newIdentifier(pos, ident) == [type |-> "NodeIdentifier", pos |-> pos, Ident |-> ident]

newBool(pos, true) == [type |-> "NodeBool", pos |-> pos, True |-> true]

newString(pos, text) == [type |-> "NodeString", pos |-> pos, Text |-> text]

newEnd(pos, iden) == [type |-> "nodeEnd", pos |-> pos, identifier |-> iden]

newElse(pos) == [type |-> "nodeElse", pos |-> pos]

newIf(pc) == [type |-> "NodeIf", pos |-> pc.pos, Expr |-> pc.expr,
              Content |-> pc.list, ElseContent |-> pc.elseList]

\* append as it would be if it put the node before the others
append_before(c, n) == [c EXCEPT !.Nodes = <<n>> \o c.Nodes]

\* ContentNode.append, ExpressionNode.append
append(c, n) == [c EXCEPT !.Nodes = Append(c.Nodes, n)]

(* strconv's number syntax, for the texts lexNumber can emit: they start   *)
(* with a digit or "." and hold no "_", so the inf/nan spellings, the      *)
(* 0b/0o prefixes and digit separators do not arise; a hex float needs a   *)
(* "p" exponent, which scanNumber never accepts.  Texts are too short to   *)
(* overflow 64 bits.                                                       *)

AllIn(t, set) == \A k \in 1..Len(t) : t[k] \in set

\* an unsigned integer literal in base 0: decimal, 0x hex, or 0 and octal digits
IsBase0Uint(t) ==
    \/ Len(t) >= 1 /\ t[1] # "0" /\ AllIn(t, Digits)
    \/ t = <<"0">>
    \/ Len(t) >= 2 /\ t[1] = "0" /\ AllIn(Tail(t), {"0", "1", "2", "3", "4", "5", "6", "7"})
    \/ Len(t) >= 3 /\ t[1] = "0" /\ t[2] \in {"x", "X"} /\ AllIn(Tail(Tail(t)), HexDigits)

StripSign(t) == IF Len(t) >= 1 /\ t[1] \in {"+", "-"} THEN Tail(t) ELSE t

\* strconv.ParseUint(text, 0, 64) succeeds
ParseUintOK(t) == IsBase0Uint(t)

\* strconv.ParseInt(text, 0, 64) succeeds
ParseIntOK(t) == IsBase0Uint(StripSign(t))

\* digits [. digits] with at least one digit
IsDecMantissa(m) ==
    /\ AllIn(m, Digits \cup {"."})
    /\ Cardinality({k \in 1..Len(m) : m[k] = "."}) <= 1
    /\ \E k \in 1..Len(m) : m[k] \in Digits

\* strconv.ParseFloat(text, 64) succeeds
ParseFloatOK(t) ==
    LET u == StripSign(t)
        es == {k \in 1..Len(u) : u[k] \in {"e", "E"}}
    IN  IF es = {} THEN IsDecMantissa(u)
        ELSE LET k == CHOOSE k \in es : \A j \in es : k <= j
                 x == StripSign(SubSeq(u, k + 1, Len(u)))
             IN  /\ IsDecMantissa(SubSeq(u, 1, k - 1))
                 /\ Len(x) >= 1 /\ AllIn(x, Digits)

\* newNumber: the number node, or the error it returns
newNumber(pos, text, typ) ==
    LET n == [type |-> "NodeNumber", pos |-> pos, Text |-> text]
        ok == [node |-> n, err |-> "", ok |-> TRUE]
        fail(e) == [node |-> NilNode, err |-> e, ok |-> FALSE]
    IN  IF typ = "itemCharConstant"
        THEN \* strconv.UnquoteChar(text[1:], text[0]) of a text without backslash
             CASE text[2] = text[1] /\ text[1] \in {"'", "\""} -> fail("invalid syntax")
               [] text[2] \notin {text[1], "\\"} ->
                    IF Slice(text, 2, Len(text)) # <<"'">>
                    THEN fail("malformed character constant")
                    ELSE ok
        ELSE IF Len(text) > 0 /\ text[Len(text)] = "i" /\ ParseFloatOK(SubSeq(text, 1, Len(text) - 1))
        THEN ok
        ELSE IF ParseIntOK(text) \/ ParseUintOK(text) THEN ok
        ELSE IF ParseFloatOK(text)
             THEN IF ~\E k \in 1..Len(text) : text[k] \in {".", "e", "E"}
                  THEN fail("integer overflow")
                  ELSE ok
        ELSE fail("illegal number syntax")

-----------------------------------------------------------------------------
(* The String methods of the nodes.  textFormat is the package variable    *)
(* of that name: "%s", or "%q" as the tests set it.                        *)

\* itemType.String: itemName[i], or "item%d" for a type without a name
itemName(i) ==
    CASE i = "itemEq" -> <<"=", "=">>
      [] i = "itemNeq" -> <<"!", "=">>
      [] i = "itemAdd" -> <<"+">>
      [] i = "itemMinus" -> <<"-">>
      [] i = "itemMultiply" -> <<"*">>
      [] i = "itemDivide" -> <<"/">>
      [] i = "itemLess" -> <<"<">>
      [] i = "itemLessEq" -> <<"<", "=">>
      [] i = "itemDot" -> <<".">>
      [] i = "itemGreater" -> <<"i", "t", "e", "m", "1", "6">>
      [] i = "itemGreaterEq" -> <<"i", "t", "e", "m", "1", "7">>
      [] i = "itemLowestPrecOpt" -> <<"i", "t", "e", "m", "2", "1">>

\* fmt's %q of a byte slice, for the bytes an input here can hold
Quote(text) ==
    <<"\"">>
    \o Flatten([k \in DOMAIN text |->
                    CASE text[k] = "\"" -> <<"\\", "\"">>
                      [] text[k] = "\\" -> <<"\\", "\\">>
                      [] text[k] = "\n" -> <<"\\", "n">>
                      [] text[k] = "\r" -> <<"\\", "r">>
                      [] text[k] = "\t" -> <<"\\", "t">>
                      [] OTHER -> <<text[k]>>])
    \o <<"\"">>

RECURSIVE String(_, _)

\* ExpressionNode.String: the operands in the order of c.Nodes
ExpressionNode_String(c, textFormat) ==
    Flatten([i \in DOMAIN c.Nodes |->
                (IF i > 1 THEN itemName(c.operator) ELSE <<>>)
                \o (IF c.Nodes[i].type = "NodeExpression"
                    THEN <<"(">> \o String(c.Nodes[i], textFormat) \o <<")">>
                    ELSE String(c.Nodes[i], textFormat))])

\* n.String() of a node n
String(n, textFormat) ==
    CASE n.type = "NodeContent" ->
            Flatten([i \in DOMAIN n.Nodes |-> String(n.Nodes[i], textFormat)])
      [] n.type = "NodeText" -> IF textFormat = "%q" THEN Quote(n.Text) ELSE n.Text
      [] n.type = "NodeExpression" -> ExpressionNode_String(n, textFormat)
      [] n.type = "NodeIdentifier" -> n.Ident
      [] n.type = "NodeBool" -> IF n.True THEN <<"t", "r", "u", "e">>
                                          ELSE <<"f", "a", "l", "s", "e">>
      [] n.type = "NodeNumber" -> n.Text
      [] n.type = "NodeString" -> n.Text
      [] n.type = "nodeEnd" -> <<"<", "/", "#">> \o n.identifier \o <<">">>
      [] n.type = "nodeElse" -> <<"{", "{", "e", "l", "s", "e", "}", "}">>
      [] n.type = "NodeIf" ->
            <<"<", "#", "i", "f", " ">> \o String(n.Expr, textFormat) \o <<">">>
            \o String(n.Content, textFormat) \o <<"<", "/", "#", "i", "f", ">">>

-----------------------------------------------------------------------------
(* Copy and ErrorContext.  A node keeps in tr the Tree that made it, and   *)
(* every Copy method hands that same tr on, so n.tree() of a parsed node   *)
(* and of its copy is the Tree that parsed the text.                       *)

RECURSIVE Copy(_)

\* IfNode.Copy as it would be if it took the position of the content
Copy_IfNode_atContent(i) ==
    newIf([pos |-> i.Content.pos, expr |-> Copy(i.Expr), list |-> Copy(i.Content),
           elseList |-> Copy(i.ElseContent)])

\* IfNode.Copy: i.tr.newIf(i.Pos, i.Expr.CopyExpr(), i.Content.CopyContent(), ...)
Copy_IfNode(i) ==
    newIf([pos |-> i.pos, expr |-> Copy(i.Expr), list |-> Copy(i.Content),
           elseList |-> Copy(i.ElseContent)])

\* n.Copy(), and CopyContent and CopyExpr, which return a nil receiver as it is
Copy(n) ==
    CASE n.type = "nil" -> n
      [] n.type = "NodeContent" ->
            [newContent(n.pos) EXCEPT !.Nodes = [i \in DOMAIN n.Nodes |-> Copy(n.Nodes[i])]]
      [] n.type = "NodeText" -> [type |-> "NodeText", pos |-> n.pos, Text |-> <<>> \o n.Text]
      [] n.type = "NodeExpression" ->
            [newExpression(n.pos, n.operator)
                EXCEPT !.Nodes = [i \in DOMAIN n.Nodes |-> Copy(n.Nodes[i])]]
      [] n.type = "NodeIdentifier" -> [type |-> n.type, pos |-> n.pos, Ident |-> n.Ident]
      [] n.type = "NodeBool" -> newBool(n.pos, n.True)
      [] n.type = "NodeNumber" -> n
      [] n.type = "NodeString" -> newString(n.pos, n.Text)
      [] n.type = "nodeEnd" -> newEnd(n.pos, n.identifier)
      [] n.type = "nodeElse" -> newElse(n.pos)
      [] n.type = "NodeIf" -> Copy_IfNode(n)

\* Tree.Copy: Name, ParseName, the copied Root and text
Tree_Copy(t) ==
    [Name |-> t.Name, ParseName |-> t.ParseName, Root |-> Copy(t.Root), text |-> t.text]

\* tree := n.tree(); if tree == nil { tree = t }
nodeTree(t, own) == IF own = NilNode THEN t ELSE own

\* ErrorContext as it would be without byteNum++
ErrorContext_atNewline(tree, n) ==
    LET text == Slice(tree.text, 0, n.pos)
        newlines == {k \in 1..Len(text) : text[k] = "\n"}
        byteNum == IF newlines = {} THEN n.pos
                   ELSE n.pos - ((CHOOSE k \in newlines : \A j \in newlines : j <= k) - 1)
        context == String(n, "%s")
    IN  [location |-> <<tree.ParseName, 1 + Cardinality(newlines), byteNum>>,
         context |-> IF Len(context) > 20
                     THEN SubSeq(context, 1, 20) \o <<".", ".", ".">> ELSE context]

\* ErrorContext of the node n whose n.tree() is tree
ErrorContext(tree, n) ==
    LET text == Slice(tree.text, 0, n.pos)
        newlines == {k \in 1..Len(text) : text[k] = "\n"}
        byteNum == IF newlines = {} THEN n.pos
                   ELSE n.pos - CHOOSE k \in newlines : \A j \in newlines : j <= k
        context == String(n, "%s")
    IN  [location |-> <<tree.ParseName, 1 + Cardinality(newlines), byteNum>>,
         context |-> IF Len(context) > 20
                     THEN SubSeq(context, 1, 20) \o <<".", ".", ".">> ELSE context]

-----------------------------------------------------------------------------
(* The parser (parse.go) as it runs over the items it has received.  A     *)
(* parser value s holds the Tree's parsing fields, the received items      *)
(* (toks) and how many of them nextItem has handed over (n).  status is    *)
(*   "run"   while parsing,                                                *)
(*   "need"  when nextItem must receive an item that toks does not hold,   *)
(*   "err"   after errorf's panic(error),                                  *)
(*   "panic" after a runtime.Error panic.                                  *)
(* Once status is not "run" every later step leaves s alone.               *)

NoErr == [fmt |-> "", line |-> 0, tok |-> NoItem, ctx |-> "", node |-> NilNode]

\* nextItem returns the next item from the input
nextItem(s) ==
    IF s.n < Len(s.toks)
    THEN [s |-> [s EXCEPT !.n = s.n + 1, !.lastPos = s.toks[s.n + 1].pos], v |-> s.toks[s.n + 1]]
    ELSE [s |-> [s EXCEPT !.status = "need"], v |-> NoItem]

\* a call that does not return a node: the parser state alone
Stop(s) == [s |-> s, v |-> NilNode]

(* Two fields of the parser state are kept for the record and read by no  *)
(* code: maxPeek, the highest value peekCount has had, and stale, whether  *)
(* next or peek has returned from the look-ahead buffer an item other than *)
(* the last one taken from the lexer.                                      *)

\* the item in slot k of t.token is not the item last taken from the lexer
Stale(s, k) == s.n = 0 \/ s.token[k] # s.toks[s.n]

\* next returns the next token
Tree_next(s) ==
    LET r == nextItem(s)
    IN  IF s.peekCount > 0
        THEN [s |-> [s EXCEPT !.peekCount = s.peekCount - 1,
                              !.stale = @ \/ Stale(s, s.peekCount)],
              v |-> s.token[s.peekCount]]
        ELSE IF r.s.status # "run" THEN r
        ELSE [s |-> [r.s EXCEPT !.token[1] = r.v], v |-> r.v]

\* backup as it would be if it backed up two tokens
Tree_backup_two(s) ==
    [s EXCEPT !.peekCount = s.peekCount + 2,
              !.maxPeek = IF s.peekCount + 2 > @ THEN s.peekCount + 2 ELSE @]

\* backup backs the input stream up one token
Tree_backup(s) ==
    [s EXCEPT !.peekCount = s.peekCount + 1,
              !.maxPeek = IF s.peekCount + 1 > @ THEN s.peekCount + 1 ELSE @]

\* peek returns but does not consume the next token
Tree_peek(s) ==
    LET r == nextItem([s EXCEPT !.peekCount = 1, !.maxPeek = IF @ < 1 THEN 1 ELSE @])
    IN  IF s.peekCount > 0
        THEN [s |-> [s EXCEPT !.stale = @ \/ Stale(s, s.peekCount)], v |-> s.token[s.peekCount]]
        ELSE IF r.s.status # "run" THEN r
        ELSE [s |-> [r.s EXCEPT !.token[1] = r.v], v |-> r.v]

\* nextNonSpace returns the next non-space token
RECURSIVE nextNonSpace(_)
nextNonSpace(s) ==
    LET r == Tree_next(s)
    IN  IF r.s.status # "run" THEN r
        ELSE IF r.v.typ = "itemSpace" THEN nextNonSpace(r.s)
        ELSE r

\* peekNonSpace returns but does not consume the next non-space token
peekNonSpace(s) ==
    LET r == nextNonSpace(s)
    IN  IF r.s.status # "run" THEN r ELSE [s |-> Tree_backup(r.s), v |-> r.v]

\* errorf as it would be without t.Root = nil
Tree_errorf_keepsRoot(s, fmt, tok, ctx, nd) ==
    [s EXCEPT !.status = "err",
              !.err = [fmt |-> fmt, line |-> s.token[1].line, tok |-> tok,
                       ctx |-> ctx, node |-> nd]]

\* errorf formats the error and terminates processing
Tree_errorf(s, fmt, tok, ctx, nd) ==
    [s EXCEPT !.status = "err", !.Root = NilNode,
              !.err = [fmt |-> fmt, line |-> s.token[1].line, tok |-> tok,
                       ctx |-> ctx, node |-> nd]]

\* unexpected complains about the token and terminates processing
unexpected(s, token, context) == Tree_errorf(s, "unexpected %s in %s", token, context, NilNode)

\* a runtime.Error panic: a nil dereference or a failed type assertion
RuntimePanic(s, why) ==
    [s EXCEPT !.status = "panic",
              !.err = [fmt |-> why, line |-> 0, tok |-> NoItem, ctx |-> "", node |-> NilNode]]

\* expect consumes the next token and guarantees it has the required type
expect(s, expected, context) ==
    LET r == nextNonSpace(s)
    IN  IF r.s.status # "run" THEN r
        ELSE IF r.v.typ # expected THEN [s |-> unexpected(r.s, r.v, context), v |-> r.v]
        ELSE r

-----------------------------------------------------------------------------
(* The two stacks of the expression engine.  A stack is the sequence       *)
(* items[:count]; pop and peek of an empty stack yield nil.                *)

push(st, e) == Append(st, e)

pop(st) ==
    IF Len(st) = 0 THEN [st |-> st, nil |-> TRUE, v |-> NilNode]
    ELSE [st |-> SubSeq(st, 1, Len(st) - 1), nil |-> FALSE, v |-> st[Len(st)]]

peek(st) == st[Len(st)]

\* an operator-stack entry is a *item; ptr tells &lowestPrecOperator from &token
lowestPrecOperator ==
    [ptr |-> "lowestPrecOperator",
     item |-> [typ |-> "itemLowestPrecOpt", pos |-> 0, val |-> <<"#">>, line |-> 0]]

TokenPtr(token) == [ptr |-> "token", item |-> token]

BinaryOperatorTypes == {"itemAdd", "itemMinus", "itemMultiply", "itemDivide", "itemLess",
                        "itemLessEq", "itemEq", "itemNeq", "itemDot"}

\* expr.append(operandStack.pop().(Node)), k times; the assertion panics on
\* nil.  v is the expression, operandStack what is left of the stack.
RECURSIVE appendOperands(_, _, _, _)
appendOperands(s, expr, operandStack, k) ==
    LET o == pop(operandStack)
    IN  IF k = 0 THEN [s |-> s, v |-> expr, operandStack |-> operandStack]
        ELSE IF o.nil
        THEN [s |-> RuntimePanic(s, "interface conversion: interface is nil, not parse.Node"),
              v |-> NilNode, operandStack |-> o.st]
        ELSE appendOperands(s, append(expr, o.v), o.st, k - 1)

\* the closer as it would be without the test of bottomOperator
expression_close_untested(s, token, topOperator, operandStack, context) ==
    IF topOperator.v.ptr = "lowestPrecOperator"
    THEN appendOperands(s, newExpression(token.pos, "itemLowestPrecOpt"), operandStack, 1)
    ELSE appendOperands(s, newExpression(token.pos, topOperator.v.item.typ), operandStack, 2)

\* case itemCloseDirective, itemRightInterpolation
expression_close(s, token, topOperator, operandStack, context) ==
    LET bottomOperator == pop(topOperator.st)
    IN  IF topOperator.v.ptr = "lowestPrecOperator"
        THEN appendOperands(s, newExpression(token.pos, "itemLowestPrecOpt"), operandStack, 1)
        ELSE IF bottomOperator.nil \/ bottomOperator.v.ptr # "lowestPrecOperator"
        THEN Stop(unexpected(s, token, context))
        ELSE appendOperands(s, newExpression(token.pos, topOperator.v.item.typ), operandStack, 2)

RECURSIVE expression_loop(_, _, _, _)

\* operandStack.push(operExpr); t.backup()
expression_reduce(s, a, operatorStack, context) ==
    IF a.s.status # "run" THEN Stop(a.s)
    ELSE expression_loop(Tree_backup(s), operatorStack, push(a.operandStack, a.v), context)

\* the operator cases: topOperator := operatorStack.peek();
\* lowestPrecOperator == topOperator compares an item with a *item and is false
expression_operator(s, token, topOperator, operatorStack, operandStack, context) ==
    IF precedence(token) >= precedence(topOperator.item)
    THEN expression_loop(s, push(operatorStack, TokenPtr(token)), operandStack, context)
    ELSE expression_reduce(s, appendOperands(s, newExpression(token.pos, topOperator.item.typ),
                                             operandStack, 2),
                           operatorStack, context)

\* switch token.typ
expression_token(s, token, operatorStack, operandStack, context) ==
    LET number == newNumber(token.pos, token.val, token.typ)
    IN  CASE token.typ \in {"itemCloseDirective", "itemRightInterpolation"} ->
                expression_close(s, token, pop(operatorStack), operandStack, context)
          [] token.typ = "itemBool" ->
                expression_loop(s, operatorStack,
                                push(operandStack,
                                     newBool(token.pos, token.val = <<"t", "r", "u", "e">>)),
                                context)
          [] token.typ \in {"itemCharConstant", "itemNumber"} ->
                IF ~number.ok THEN Stop(Tree_errorf(s, "%s", token, number.err, NilNode))
                ELSE expression_loop(s, operatorStack, push(operandStack, number.node), context)
          [] token.typ = "itemIdentifier" ->
                expression_loop(s, operatorStack,
                                push(operandStack, newIdentifier(token.pos, token.val)), context)
          [] token.typ = "itemStringConstant" ->
                expression_loop(s, operatorStack,
                                push(operandStack, newString(token.pos, token.val)), context)
          [] token.typ \in BinaryOperatorTypes ->
                expression_operator(s, token, peek(operatorStack), operatorStack, operandStack,
                                    context)
          [] OTHER -> Stop(unexpected(s, token, context))

\* the loop of expression: token := t.nextNonSpace()
expression_loop(s, operatorStack, operandStack, context) ==
    LET r == nextNonSpace(s)
    IN  IF r.s.status # "run" THEN Stop(r.s)
        ELSE expression_token(r.s, r.v, operatorStack, operandStack, context)

\* expression parses up to and including the closing token
expression(s, context) == expression_loop(s, push(<<>>, lowestPrecOperator), <<>>, context)

\* interpolation: the "${" is past
interpolation(s) == expression(s, "interpolation")

\* Else: the else keyword is past
elseControl(s) ==
    LET p == peekNonSpace(s)
        e == expect(p.s, "itemCloseDirective", "else")
    IN  IF p.s.status # "run" THEN Stop(p.s)
        ELSE IF p.v.typ = "itemDirectiveIf" THEN [s |-> p.s, v |-> newElse(p.v.pos)]
        ELSE IF e.s.status # "run" THEN Stop(e.s)
        ELSE [s |-> e.s, v |-> newElse(e.v.pos)]

RECURSIVE textOrInterpolationOrDirective(_)
RECURSIVE itemContent_loop(_, _)
RECURSIVE parseControl(_, _, _)

\* itemContent leaves by a panic
itemContent_stop(s) == [s |-> s, content |-> NilNode, next |-> NilNode]

\* the switch as it would be if the marker were appended before the return
itemContent_node_keepsMarker(r, content) ==
    IF r.s.status # "run" THEN itemContent_stop(r.s)
    ELSE IF r.v.type = "nil"
    THEN itemContent_stop(RuntimePanic(r.s, "invalid memory address or nil pointer dereference"))
    ELSE IF r.v.type \in {"nodeEnd", "nodeElse"}
    THEN [s |-> r.s, content |-> append(content, r.v), next |-> r.v]
    ELSE itemContent_loop(r.s, append(content, r.v))

\* switch n.Type(): of a nil Node the call is a nil dereference
itemContent_node(r, content) ==
    IF r.s.status # "run" THEN itemContent_stop(r.s)
    ELSE IF r.v.type = "nil"
    THEN itemContent_stop(RuntimePanic(r.s, "invalid memory address or nil pointer dereference"))
    ELSE IF r.v.type \in {"nodeEnd", "nodeElse"}
    THEN [s |-> r.s, content |-> content, next |-> r.v]
    ELSE itemContent_loop(r.s, append(content, r.v))

\* for t.peekNonSpace().typ != itemEOF
itemContent_loop(s, content) ==
    LET p == peekNonSpace(s)
    IN  IF p.s.status # "run" THEN itemContent_stop(p.s)
        ELSE IF p.v.typ = "itemEOF"
        THEN itemContent_stop(Tree_errorf(p.s, "unexpected EOF", NoItem, "", NilNode))
        ELSE itemContent_node(textOrInterpolationOrDirective(p.s), content)

\* itemContent: a content run up to its End or Else marker
itemContent(s) ==
    LET p == peekNonSpace(s)
    IN  IF p.s.status # "run" THEN itemContent_stop(p.s)
        ELSE itemContent_loop(p.s, newContent(p.v.pos))

ifControl_node(pc) == IF pc.s.status # "run" THEN Stop(pc.s) ELSE [s |-> pc.s, v |-> newIf(pc)]

\* If: the if keyword is past
ifControl(s) == ifControl_node(parseControl(s, TRUE, "if"))

\* parseControl leaves by a panic
parseControl_stop(s) ==
    [s |-> s, pos |-> 0, expr |-> NilNode, list |-> NilNode, elseList |-> NilNode]

\* return expr.Position(), expr, list, elseList
parseControl_return(s, expr, list, elseList) ==
    [s |-> s, pos |-> expr.pos, expr |-> expr, list |-> list, elseList |-> elseList]

\* elseList, next = t.itemContent()
parseControl_elseList(expr, list, c2) ==
    IF c2.s.status # "run" THEN parseControl_stop(c2.s)
    ELSE IF c2.next.type # "nodeEnd"
    THEN parseControl_stop(Tree_errorf(c2.s, "expected end; found %s", NoItem, "", c2.next))
    ELSE parseControl_return(c2.s, expr, list, c2.content)

\* the nested If taken as the else list itself
parseControl_elseIf_bare(expr, list, next, i) ==
    IF i.s.status # "run" THEN parseControl_stop(i.s)
    ELSE parseControl_return(i.s, expr, list, i.v)

\* elseList.append(t.ifControl())
parseControl_elseIf(expr, list, next, i) ==
    IF i.s.status # "run" THEN parseControl_stop(i.s)
    ELSE parseControl_return(i.s, expr, list, append(newContent(next.pos), i.v))

\* if t.peek().typ == itemDirectiveIf
parseControl_peek(expr, c, p) ==
    IF p.s.status # "run" THEN parseControl_stop(p.s)
    ELSE IF p.v.typ = "itemDirectiveIf"
    THEN parseControl_elseIf(expr, c.content, c.next, ifControl(Tree_next(p.s).s))
    ELSE parseControl_elseList(expr, c.content, itemContent(p.s))

\* the switch as it would be if case nodeEnd made an empty else list
parseControl_list_emptyElse(expr, c, allowElseIf) ==
    IF c.s.status # "run" THEN parseControl_stop(c.s)
    ELSE IF c.next.type = "nodeEnd"
    THEN parseControl_return(c.s, expr, c.content, newContent(c.next.pos))
    ELSE IF allowElseIf THEN parseControl_peek(expr, c, Tree_peek(c.s))
    ELSE parseControl_elseList(expr, c.content, itemContent(c.s))

\* switch next.Type()
parseControl_list(expr, c, allowElseIf) ==
    IF c.s.status # "run" THEN parseControl_stop(c.s)
    ELSE IF c.next.type = "nodeEnd" THEN parseControl_return(c.s, expr, c.content, NilNode)
    ELSE IF allowElseIf THEN parseControl_peek(expr, c, Tree_peek(c.s))
    ELSE parseControl_elseList(expr, c.content, itemContent(c.s))

parseControl_expr(e, allowElseIf) ==
    IF e.s.status # "run" THEN parseControl_stop(e.s)
    ELSE parseControl_list(e.v, itemContent(e.s), allowElseIf)

parseControl(s, allowElseIf, context) == parseControl_expr(expression(s, context), allowElseIf)

\* directive's switch; past it: t.backup(); t.peek(); return nil
directive_token(r) ==
    IF r.s.status # "run" THEN Stop(r.s)
    ELSE IF r.v.typ = "itemDirectiveIf" THEN ifControl(r.s)
    ELSE IF r.v.typ = "itemDirectiveElse" THEN elseControl(r.s)
    ELSE Stop(Tree_peek(Tree_backup(r.s)).s)

\* directive: the "<#" is past
directive(s) == directive_token(nextNonSpace(s))

\* case itemEndDirective: token = t.next() twice, for the name and the ">"
textOrInterpolationOrDirective_end(s) ==
    LET t1 == Tree_next(s)
        t2 == Tree_next(t1.s)
    IN  IF t1.s.status # "run" THEN Stop(t1.s)
        ELSE IF t2.s.status # "run" THEN Stop(t2.s)
        ELSE [s |-> t2.s, v |-> newEnd(t2.v.pos, t2.v.val)]

textOrInterpolationOrDirective_token(r) ==
    IF r.s.status # "run" THEN Stop(r.s)
    ELSE CASE r.v.typ = "itemText" -> [s |-> r.s, v |-> newText(r.v.pos, r.v.val)]
           [] r.v.typ = "itemLeftInterpolation" -> interpolation(r.s)
           [] r.v.typ = "itemStartDirective" -> directive(r.s)
           [] r.v.typ = "itemEndDirective" -> textOrInterpolationOrDirective_end(r.s)
           [] OTHER -> Stop(unexpected(r.s, r.v, "input"))

textOrInterpolationOrDirective(s) == textOrInterpolationOrDirective_token(nextNonSpace(s))

RECURSIVE parse_loop(_)

\* switch n := t.textOrInterpolationOrDirective(); n.Type()
parse_node(r) ==
    IF r.s.status # "run" THEN r.s
    ELSE IF r.v.type = "nil"
    THEN RuntimePanic(r.s, "invalid memory address or nil pointer dereference")
    ELSE IF r.v.type \in {"nodeEnd", "nodeElse"}
    THEN Tree_errorf(r.s, "unexpected %s", NoItem, "", r.v)
    ELSE parse_loop([r.s EXCEPT !.Root = append(r.s.Root, r.v)])

\* for t.peek().typ != itemEOF
parse_loop(s) ==
    LET p == Tree_peek(s)
    IN  IF p.s.status # "run" THEN p.s
        ELSE IF p.v.typ = "itemEOF" THEN [p.s EXCEPT !.status = "ok"]
        ELSE parse_node(textOrInterpolationOrDirective(p.s))

\* parse is the top-level parser for a template; it runs to EOF
parse(s) ==
    LET p == Tree_peek(s)
    IN  IF p.s.status # "run" THEN p.s
        ELSE parse_loop([p.s EXCEPT !.Root = newContent(p.v.pos)])

\* the parser as startParse leaves it, with the items received so far
startParse(toks) ==
    [toks |-> toks, n |-> 0, lastPos |-> 0, token |-> <<ZeroItem, ZeroItem, ZeroItem>>,
     peekCount |-> 0, maxPeek |-> 0, stale |-> FALSE,
     status |-> "run", err |-> NoErr, Root |-> NilNode]

-----------------------------------------------------------------------------
(* Tree.Parse, add and IsEmptyTree.                                        *)

Names == {"T", "U"}

\* no Tree: a nil map entry
NoTree == [id |-> 0, Root |-> NilNode]

WhiteSpace == {" ", "\t", "\n", "\r", "\f"}

\* IsEmptyTree: "true", "false", or "panic" for panic("unknown node: ...")
RECURSIVE IsEmptyTree(_)
RECURSIVE IsEmptyTree_range(_)

\* for _, node := range n.Nodes
IsEmptyTree_range(nodes) ==
    LET e == IsEmptyTree(Head(nodes))
    IN  IF nodes = <<>> THEN "true"
        ELSE IF e = "true" THEN IsEmptyTree_range(Tail(nodes))
        ELSE e

IsEmptyTree(n) ==
    CASE n.type = "nil" -> "true"
      [] n.type = "NodeIf" -> "false"
      [] n.type = "NodeContent" -> IsEmptyTree_range(n.Nodes)
      [] n.type = "NodeList" -> "false"
      [] n.type = "NodeText" -> IF AllIn(n.Text, WhiteSpace) THEN "true" ELSE "false"
      [] OTHER -> "panic"

\* the Tree t with the parser state s in it
Tree_of(name, id, s) ==
    [Name |-> name, id |-> id, status |-> s.status, Root |-> s.Root, err |-> s.err,
     peekCount |-> s.peekCount, maxPeek |-> s.maxPeek, stale |-> s.stale,
     token |-> s.token, lastPos |-> s.lastPos,
     retTree |-> "unset", retErr |-> NoErr]

\* Tree.Parse up to the end of t.parse(), over the items received so far
Tree_Parse(name, id, toks) == Tree_of(name, id, parse(startParse(toks)))

\* add adds tree to t.treeSet: the map and the Tree afterwards
add(t, set) ==
    LET old == IF set[t.Name].id = 0 THEN "true" ELSE IsEmptyTree(set[t.Name].Root)
        new == IsEmptyTree(t.Root)
    IN  IF old = "true"
        THEN [set |-> [set EXCEPT ![t.Name] = [id |-> t.id, Root |-> t.Root]], t |-> t]
        ELSE IF old = "panic" \/ new = "panic"
        THEN [set |-> set, t |-> [t EXCEPT !.status = "panicString"]]
        ELSE IF new = "false"
        THEN [set |-> set,
              t |-> [t EXCEPT !.status = "err", !.Root = NilNode,
                              !.err = [fmt |-> "template: multiple definition of template %q",
                                       line |-> t.token[1].line, tok |-> NoItem,
                                       ctx |-> t.Name, node |-> NilNode]]]
        ELSE [set |-> set, t |-> t]

-----------------------------------------------------------------------------
(* The channel l.items and the two goroutines.                             *)

\* items: make(chan item)
ChanCap == 0

SenderParked == lpc \in {"emit", "errorf"}

\* emit as it would be without l.start = l.pos
sendDone_keepsStart(l, via) == l

\* the rest of emit once its send has completed; errorf has nothing after it
sendDone(l, via) == IF via = "emit" THEN [l EXCEPT !.start = l.pos] ELSE l

\* the send as it would be on a channel made with room for items
Send_buffered(r) ==
    IF ppc = "nextItem"
    THEN /\ received' = Append(received, r.out)
         /\ tr' = Tree_Parse(tr.Name, tr.id, received')
         /\ ppc' = "parse"
         /\ sent' = Append(sent, r.out)
         /\ lx' = sendDone(r.l, r.via)
         /\ lpc' = "run"
         /\ UNCHANGED <<out, buf, drained>>
    ELSE IF ppc = "drainWait"
    THEN /\ drained' = Append(drained, r.out)
         /\ ppc' = "drain"
         /\ sent' = Append(sent, r.out)
         /\ lx' = sendDone(r.l, r.via)
         /\ lpc' = "run"
         /\ UNCHANGED <<out, buf, received, tr>>
    ELSE /\ buf' = Append(buf, r.out)
         /\ sent' = Append(sent, r.out)
         /\ lx' = sendDone(r.l, r.via)
         /\ lpc' = "run"
         /\ UNCHANGED <<out, ppc, received, drained, tr>>

\* the lexer goroutine reaches the send of r.out inside r.via
Send(r) ==
    IF ppc = "nextItem"
    THEN /\ received' = Append(received, r.out)
         /\ tr' = Tree_Parse(tr.Name, tr.id, received')
         /\ ppc' = "parse"
         /\ sent' = Append(sent, r.out)
         /\ lx' = sendDone(r.l, r.via)
         /\ lpc' = "run"
         /\ UNCHANGED <<out, buf, drained>>
    ELSE IF ppc = "drainWait"
    THEN /\ drained' = Append(drained, r.out)
         /\ ppc' = "drain"
         /\ sent' = Append(sent, r.out)
         /\ lx' = sendDone(r.l, r.via)
         /\ lpc' = "run"
         /\ UNCHANGED <<out, buf, received, tr>>
    ELSE IF Len(buf) < ChanCap
    THEN /\ buf' = Append(buf, r.out)
         /\ sent' = Append(sent, r.out)
         /\ lx' = sendDone(r.l, r.via)
         /\ lpc' = "run"
         /\ UNCHANGED <<out, ppc, received, drained, tr>>
    ELSE /\ lx' = r.l
         /\ lpc' = r.via
         /\ out' = r.out
         /\ UNCHANGED <<buf, sent, ppc, received, drained, tr>>

\* one run of the state function whose segment yields r
LexerStep(r) ==
    /\ IF r.via = "return"
       THEN /\ lx' = r.l
            /\ UNCHANGED <<lpc, out, buf, sent, ppc, received, drained, tr>>
       ELSE Send(r)
    /\ UNCHANGED <<heap, input, closed, requests, treeSet>>

\* l.state(l): the state function the lexer is at, run to its next send or return
state(l) ==
    CASE l.state = "lexText" -> lexText(l)
      [] l.state = "lexText_eof" -> lexText_eof(l)
      [] l.state = "lexInterpolation" -> lexInterpolation(l)
      [] l.state = "lexComment" -> lexComment(l)
      [] l.state = "lexExpression" -> lexExpression(l)
      [] l.state = "lexExpression_lparen" -> lexExpression_lparen(l)
      [] l.state = "lexExpression_rparen" -> lexExpression_rparen(l)
      [] l.state = "lexDirective" -> lexDirective(l)
      [] l.state = "lexDirective_end" -> lexDirective_end(l)
      [] l.state = "lexSpace" -> lexSpace(l)
      [] l.state = "lexIdentifier" -> lexIdentifier(l)
      [] l.state = "lexComparator" -> lexComparator(l)
      [] l.state = "lexChar" -> lexChar(l)
      [] l.state = "lexString" -> lexString(l)
      [] l.state = "lexNumber" -> lexNumber(l)

\* run: for l.state = lexText; l.state != nil; { l.state = l.state(l) }
Run ==
    /\ lpc = "run"
    /\ lx.state # "nil"
    /\ LexerStep(state(lx))

\* run: the state is nil, the loop ends, close(l.items)
Close ==
    /\ lpc = "run"
    /\ lx.state = "nil"
    /\ closed' = TRUE
    /\ lpc' = "done"
    /\ IF ppc = "nextItem"
       THEN /\ received' = Append(received, ZeroItem)
            /\ tr' = Tree_Parse(tr.Name, tr.id, received')
            /\ ppc' = "parse"
       ELSE IF ppc = "drainWait"
       THEN /\ ppc' = "drained"
            /\ UNCHANGED <<received, tr>>
       ELSE UNCHANGED <<ppc, received, tr>>
    /\ UNCHANGED <<heap, input, lx, out, buf, sent, drained, requests, treeSet>>

(* A receive by the parser goroutine: from the buffer, from the parked     *)
(* sender, the zero item of the closed channel, or it parks.               *)
\* the receive as it would be if it did not wait for a sender (a select with
\* a default that yields the zero item)
RecvFrom_poll == IF buf # <<>> THEN "buf"
                 ELSE IF SenderParked THEN "sender"
                 ELSE "closed"

RecvFrom == IF buf # <<>> THEN "buf"
            ELSE IF SenderParked THEN "sender"
            ELSE IF closed THEN "closed"
            ELSE "park"

\* the channel and the lexer goroutine after a receive that does not park
RecvEffects ==
    CASE RecvFrom = "buf" /\ SenderParked ->
            /\ buf' = Append(Tail(buf), out)
            /\ sent' = Append(sent, out)
            /\ lx' = sendDone(lx, lpc)
            /\ lpc' = "run"
            /\ out' = NoItem
      [] RecvFrom = "buf" /\ ~SenderParked ->
            /\ buf' = Tail(buf)
            /\ UNCHANGED <<sent, lx, lpc, out>>
      [] RecvFrom = "sender" ->
            /\ sent' = Append(sent, out)
            /\ lx' = sendDone(lx, lpc)
            /\ lpc' = "run"
            /\ out' = NoItem
            /\ UNCHANGED buf
      [] OTHER -> UNCHANGED <<buf, sent, lx, lpc, out>>

RecvValue == CASE RecvFrom = "buf" -> Head(buf)
               [] RecvFrom = "sender" -> out
               [] OTHER -> ZeroItem

\* lexer.nextItem, called by the parser where it needs an item it has not got
NextItem ==
    /\ ppc = "parse"
    /\ tr.status = "need"
    /\ requests' = requests + 1
    /\ RecvEffects
    /\ IF RecvFrom = "park"
       THEN /\ ppc' = "nextItem"
            /\ UNCHANGED <<received, tr>>
       ELSE /\ received' = Append(received, RecvValue)
            /\ tr' = Tree_Parse(tr.Name, tr.id, received')
            /\ UNCHANGED ppc
    /\ UNCHANGED <<heap, input, closed, drained, treeSet>>

\* t.parse() has run to EOF: t.add(), t.stopParse(), return t, nil
Finish ==
    /\ ppc = "parse"
    /\ tr.status = "ok"
    /\ LET a == add(tr, treeSet)
       IN  /\ treeSet' = a.set
           /\ IF a.t.status = "ok"
              THEN /\ tr' = [a.t EXCEPT !.retTree = "t"]
                   /\ ppc' = "returned"
              ELSE /\ tr' = a.t
                   /\ ppc' = "parse"
    /\ UNCHANGED <<heap, input, lx, lpc, out, closed, buf, sent, received, drained, requests>>

\* recover as it would be without t.lex.drain()
Recover_undrained ==
    /\ ppc = "parse"
    /\ tr.status \in {"err", "panic", "panicString"}
    /\ ppc' = IF tr.status = "panic" THEN "panicked" ELSE "drained"
    /\ UNCHANGED <<heap, input, lx, lpc, out, closed, buf, sent, received, drained, requests,
                   tr, treeSet>>

\* recover: a runtime.Error is panicked again, any other panic drains the lexer
Recover ==
    /\ ppc = "parse"
    /\ tr.status \in {"err", "panic", "panicString"}
    /\ ppc' = IF tr.status = "panic" THEN "panicked" ELSE "drain"
    /\ UNCHANGED <<heap, input, lx, lpc, out, closed, buf, sent, received, drained, requests,
                   tr, treeSet>>

\* drain: one receive of for range l.items
Drain ==
    /\ ppc = "drain"
    /\ requests' = requests + 1
    /\ RecvEffects
    /\ IF RecvFrom = "park" THEN ppc' = "drainWait" /\ UNCHANGED drained
       ELSE IF RecvFrom = "closed" THEN ppc' = "drained" /\ UNCHANGED drained
       ELSE ppc' = "drain" /\ drained' = Append(drained, RecvValue)
    /\ UNCHANGED <<heap, input, closed, received, tr, treeSet>>

\* recover after drain: t.stopParse(); *errp = e.(error), which panics on a string
Returned ==
    /\ ppc = "drained"
    /\ IF tr.status = "err"
       THEN /\ ppc' = "returned"
            /\ tr' = [tr EXCEPT !.retTree = "nil", !.retErr = tr.err]
       ELSE /\ ppc' = "panicked"
            /\ UNCHANGED tr
    /\ UNCHANGED <<heap, input, lx, lpc, out, closed, buf, sent, received, drained, requests,
                   treeSet>>

-----------------------------------------------------------------------------
(* The template texts.                                                     *)

Frags == <<
    <<"a">>, <<" ">>, <<"\n">>, <<"1">>,
    <<"$", "{">>, <<"}">>, <<"<", "#">>, <<"<", "/", "#">>, <<">">>,
    <<"<", "#", "-", "-">>, <<"-", "-", ">">>,
    <<"i", "f">>, <<"e", "l", "s", "e">>, <<"=", "=">>, <<"(">>, <<")">>,
    <<"'">>, <<"\"">>
>>

\* the choices of len fragments
Choices(len) == [1..len -> 1..Len(Frags)]

\* the text that a choice of fragments spells
Text(f) == Flatten([k \in DOMAIN f |-> Frags[f[k]]])

\* no node is held by reference
NoHeap == [mem |-> <<>>, n |-> 0, copy |-> 0, writes |-> 0]

lexerInit == [state |-> "lexText", pos |-> 0, start |-> 0, width |-> 0, line |-> 1,
              parenDepth |-> 0]

\* Tree.Parse(text, treeSet) on New(name), up to the start of t.parse()
StartParse(name, text, set, no) ==
    /\ input = text
    /\ lx = lexerInit
    /\ lpc = "run"
    /\ out = NoItem
    /\ closed = FALSE
    /\ buf = <<>>
    /\ sent = <<>>
    /\ ppc = "parse"
    /\ received = <<>>
    /\ drained = <<>>
    /\ requests = 0
    /\ tr = Tree_Parse(name, no, <<>>)
    /\ treeSet = set
    /\ heap = NoHeap

\* the Root that Parse leaves for a text without markers: one Text, then EOF
TextRoot(text) ==
    parse(startParse(<<item("itemText", 0, text, 1), item("itemEOF", Len(text), <<>>, 1)>>)).Root

\* treeSet := make(map[string]*Tree)
FreshSet == [nm \in Names |-> NoTree]

\* the maps in which an earlier Tree.Parse of "a" or of " " has left an entry
TreeSets ==
    {[nm \in Names |-> IF nm = n THEN [id |-> 1, Root |-> TextRoot(t)] ELSE NoTree] :
        n \in Names, t \in {<<"a">>, <<" ">>}}

(* Longer texts than MaxFrags fragments give: if directives with a        *)
(* comparison, with chains of else branches and with arithmetic, and       *)
(* comments with text in them.                                             *)

\* the bound on the number of else-if branches of one if
MaxChain == 2

Idents == {<<"a">>, <<"b">>}

Bodies == {<<"c">>, <<"c", " ", "\n", "d", "e">>}

\* the keywords that open an else-if branch: else, spaces, if; and elseif
ElseIfs == {<<"e", "l", "s", "e", " ", "i", "f">>, <<"e", "l", "s", "e", " ", " ", "i", "f">>,
            <<"e", "l", "s", "e", "i", "f">>}

Arithmetic == {<<"+">>, <<"-">>, <<"*">>, <<"/">>, <<" ", "+", " ">>, <<" ", "-", " ">>,
               <<" ", "*", " ">>, <<" ", "/", " ">>}

\* <#if expr>list, k times <#kw b>c, then <#else>d if there is one, </#if>
RECURSIVE IfText(_, _, _, _, _)
IfText(expr, list, kw, k, else) ==
    IF k > 0
    THEN IfText(expr, list \o startDirective \o kw \o <<" ", "b", ">", "c">>, kw, k - 1, else)
    ELSE startDirective \o <<"i", "f">> \o expr \o <<">">> \o list
         \o (IF else THEN startDirective \o <<"e", "l", "s", "e", ">", "d">> ELSE <<>>)
         \o endDirective \o <<"i", "f", ">">>

Corpus ==
    {IfText(<<" ">> \o x \o <<" ", "=", "=", " ">> \o y, t, <<>>, 0, FALSE) \o u :
        x \in Idents, y \in Idents, t \in Bodies, u \in Bodies}
    \cup {IfText(e, t, <<>>, 0, FALSE) : e \in {<<>>, <<" ", "a">>}, t \in {<<>>, <<" ">>}}
    \cup {IfText(<<" ", "a", " ", "=", "=", " ", "b">>, <<"c", " ", "\n", "d", "e">>, kw, k, else) :
            kw \in ElseIfs, k \in 0..MaxChain, else \in BOOLEAN}
    \cup {IfText(<<" ", "a">> \o op \o <<"b">>, <<"c">>, <<>>, 0, FALSE) : op \in Arithmetic}
    \cup {leftInterpolation \o <<"a">> \o op \o <<"b">> \o rightInterpolation :
            op \in Arithmetic}
    \cup {w \o leftComment \o c \o rightComment \o w : w \in {<<>>, <<" ", "\n">>}, c \in Bodies}
    \cup {w[1] \o leftInterpolation \o x \o rightInterpolation \o w[2] :
            x \in Idents, w \in {<<<<>>, <<"c">>>>, <<leftComment, rightComment>>}}

\* the symbol comparators
Comparators == {<<"=", "=">>, <<"!", "=">>, <<"<", "=">>, <<"<">>}

\* white space or none
Blank == {<<>>, <<" ">>}

\* one interpolation
Interpolation(expr) == leftInterpolation \o expr \o rightInterpolation

\* the keyword comparators
KeywordComparators == {<<"g", "t">>, <<"g", "t", "e">>}

\* expressions with a parenthesis too few or too many
OpenParens == {<<"(">>, <<"(", "a">>, <<"(", "(", "a", ")">>}
CloseParens == {<<")">>, <<"a", ")">>, <<"(", "a", ")", ")">>}

\* an End or an Else marker where no if is open
StrayEnds == {endDirective \o <<"i", "f", ">">>,
              <<"c">> \o endDirective \o <<"i", "f", ">">>,
              IfText(<<" ", "a">>, <<"c">>, <<>>, 0, TRUE) \o <<"\n">> \o endDirective \o <<"i", "f", ">">>}
StrayElses == {startDirective \o <<"e", "l", "s", "e", ">">>,
               <<"c", "\n">> \o startDirective \o <<"e", "l", "s", "e", ">", "d">>,
               IfText(<<" ", "a">>, <<"c">>, <<>>, 0, FALSE) \o startDirective \o <<"e", "l", "s", "e", ">">>}

\* an if that is open at the end of the input
OpenIfs == {startDirective \o <<"i", "f", " ", "a", ">">> \o t : 
                t \in {<<>>, <<"c">>, <<"c">> \o startDirective \o <<"e", "l", "s", "e", ">", "d">>,
                       <<"c">> \o startDirective \o <<"e", "l", "s", "e", " ", "i", "f", " ", "b", ">", "c">>,
                       IfText(<<" ", "b">>, <<"c">>, <<>>, 0, FALSE)}}

\* the names in the end tags
EndTags == {<<"i", "f">>, <<"l", "i", "s", "t">>}

\* <#if a>c, <#else> and its text if there is one, and the end tag of tag
EndTagged(else, tag) ==
    startDirective \o <<"i", "f", " ", "a", ">", "c">>
    \o (IF else = <<>> THEN <<>> ELSE startDirective \o <<"e", "l", "s", "e", ">">> \o else)
    \o endDirective \o tag \o <<">">>

\* a field access compared: the comparator meets the "." on the stack
Reductions == {<<"a", ".", "b", " ">> \o op \o <<" ", "c">> : op \in Comparators}

\* operands side by side with no operator between them
Juxtaposed == {<<"a", " ", "b">>, <<"a", " ", "1">>, <<"a", " ", "b", " ", "=", "=", " ", "c">>,
               <<"a", " ", "=", "=", " ", "b", " ", "c">>}

\* two operators, the second of a precedence not below the first
Stacked == {<<"a", " ", "=", "=", " ", "b", " ", "=", "=", " ", "c">>,
            <<"a", " ", "=", "=", " ", "b", " ", "!", "=", " ", "c">>,
            <<"a", " ", "=", "=", " ", "b", ".", "c">>}

\* a complex literal, and a "=" or "!" that stands alone before a space
Unemitted == {<<"1", "+", "2", "i">>, <<"(", "1", "+", "2", "i", ")">>,
              <<"a", " ", "=", " ", "b">>, <<"a", " ", "!", " ", "b">>}

(* Templates parsed by Parse(name, text) only: comparisons of numbers and, *)
(* by keyword, of identifiers; unbalanced parentheses and markers;         *)
(* expressions of two operators and of operands without one; expressions  *)
(* with a part for which the scanner has no token.                         *)
Templates ==
    {Interpolation(<<"1">> \o v \o op \o w \o <<"2">>) : op \in Comparators, v \in Blank, w \in Blank}
    \cup {IfText(<<" ", "a", " ">> \o op \o <<" ", "b">>, <<"c">>, <<>>, 0, FALSE) :
            op \in KeywordComparators}
    \cup {Interpolation(e) : e \in OpenParens \cup CloseParens}
    \cup {IfText(<<" ">> \o e, <<"c">>, <<>>, 0, FALSE) : e \in OpenParens \cup CloseParens}
    \cup StrayEnds \cup StrayElses \cup OpenIfs
    \cup {EndTagged(e, tag) : e \in {<<>>, <<"d">>}, tag \in EndTags}
    \cup {Interpolation(e) : e \in Reductions \cup Juxtaposed \cup Stacked \cup Unemitted}
    \cup {IfText(<<" ">> \o e, <<"c">>, <<>>, 0, FALSE) : e \in Reductions \cup Juxtaposed \cup Stacked}

\* Parse(name, text), or t.Parse(text, treeSet) with a map that has an entry
Init ==
    \E set \in {FreshSet} \cup TreeSets :
        \/ \E len \in 0..(IF set = FreshSet THEN MaxFrags ELSE MaxSetFrags) :
                \E f \in Choices(len) : StartParse("T", Text(f), set, 2)
        \/ \E text \in Corpus \cup (IF set = FreshSet THEN Templates ELSE {}) :
                StartParse("T", text, set, 2)

Next ==
    \/ Run \/ Close
    \/ NextItem \/ Finish \/ Recover \/ Drain \/ Returned

Spec == Init /\ [][Next]_vars

(* The two goroutines under the scheduler: a goroutine that can run is run *)
(* in the end.  The texts are those of Parse(name, text).                  *)

\* the longest of the texts made of fragments
MaxLiveFrags == 2

LiveInit ==
    \/ \E len \in 0..MaxLiveFrags : \E f \in Choices(len) : StartParse("T", Text(f), FreshSet, 2)
    \/ \E text \in Corpus \cup Templates : StartParse("T", text, FreshSet, 2)

\* the lexer goroutine is not blocked: Close can be taken, or Run, and its
\* state function sends an item or leaves the lexer in another state
LexerCanRun ==
    /\ lpc = "run"
    /\ lx.state # "nil" => state(lx).via # "return" \/ state(lx).l # lx

\* the parser goroutine is not blocked and has not left Parse
ParserCanRun == ppc \in {"parse", "drain", "drained"}

(* Weak fairness of each goroutine, WF_vars(Run \/ Close) and               *)
(* WF_vars(NextItem \/ Finish \/ Recover \/ Drain \/ Returned), written     *)
(* out by its definition with the state predicate that ENABLED comes to.   *)
LiveSpec ==
    /\ LiveInit
    /\ [][Next]_vars
    /\ ([]<>~LexerCanRun \/ []<><<Run \/ Close>>_vars)
    /\ ([]<>~ParserCanRun \/ []<><<NextItem \/ Finish \/ Recover \/ Drain \/ Returned>>_vars)

-----------------------------------------------------------------------------
(* Copy by reference.  Go's nodes are objects reached through pointers and  *)
(* their slices have backing arrays, so a copy can share a part with its   *)
(* original.  heap.mem is the memory, a sequence of objects whose index is *)
(* their address (0 is nil); heap.n is the node Copy is called on and      *)
(* heap.copy the node it returns.  A node object has the fields of every   *)
(* node, type, Pos and tr, and then                                        *)
(*   val: its fields of value type (Ident, True, operator, Text of a       *)
(*        number or string, identifier), as a string,                      *)
(*   ptr: its fields that point to a node (Expr, Content, ElseContent of   *)
(*        an If or List; Node of a Chain),                                 *)
(*   arr: the backing array of its slice (Nodes, Text, Ident, Field).      *)

\* the most writes made through one copy
MaxWrites == 2

NodeObject(type, Pos, val, ptr, arr) ==
    [type |-> type, Pos |-> Pos, tr |-> "T", val |-> val, ptr |-> ptr, arr |-> arr]

\* the backing array of a []Node, []byte or []string
Array(of, elems) == [type |-> "array", of |-> of, elems |-> elems]

\* &T{...}, make: the memory with the object in it, and the object's address
Alloc(mem, obj) == [mem |-> Append(mem, obj), a |-> Len(mem) + 1]

RECURSIVE CopyAt(_, _)
RECURSIVE CopyNodes(_, _, _)

\* for _, elem := range c.Nodes { n.append(elem.Copy()) }
CopyNodes(mem, elems, copies) ==
    IF elems = <<>> THEN [mem |-> mem, elems |-> copies]
    ELSE CopyNodes(CopyAt(mem, Head(elems)).mem, Tail(elems),
                   Append(copies, CopyAt(mem, Head(elems)).a))

\* CopyContent and CopyExpr: nil for nil, else a new node with copies of the
\* elements; its Nodes are nil when nothing was appended
CopyContent(mem, a) ==
    IF a = 0 THEN [mem |-> mem, a |-> 0]
    ELSE LET r == CopyNodes(mem, IF mem[a].arr = 0 THEN <<>> ELSE mem[mem[a].arr].elems, <<>>)
         IN  IF r.elems = <<>> THEN Alloc(r.mem, [mem[a] EXCEPT !.arr = 0])
             ELSE Alloc(Alloc(r.mem, Array("Node", r.elems)).mem,
                        [mem[a] EXCEPT !.arr = Len(r.mem) + 1])

\* n.Copy() of the node at address a
CopyAt(mem, a) ==
    LET expr == CopyContent(mem, mem[a].ptr[1])
        list == CopyContent(expr.mem, mem[a].ptr[2])
        elseList == CopyContent(list.mem, mem[a].ptr[3])
    IN  CASE mem[a].type \in {"NodeContent", "NodeExpression"} -> CopyContent(mem, a)
          \* &TextNode{..., Text: append([]byte{}, t.Text...)}, and so VariableNode
          \* with Ident and ChainNode with Field; ChainNode.Copy has Node: c.Node
          [] mem[a].type \in {"NodeText", "NodeVariable", "NodeChain"} ->
                Alloc(Alloc(mem, mem[mem[a].arr]).mem, [mem[a] EXCEPT !.arr = Len(mem) + 1])
          \* newIf(i.Pos, i.Expr.CopyExpr(), i.Content.CopyContent(),
          \*       i.ElseContent.CopyContent()), and so newList
          [] mem[a].type \in {"NodeIf", "NodeList"} ->
                Alloc(elseList.mem, [mem[a] EXCEPT !.ptr = <<expr.a, list.a, elseList.a>>])
          [] OTHER -> Alloc(mem, mem[a])

\* the nodes Copy is called on: one of each type, and nested ones
Samples ==
    LET heapLeaf(mem, type, pos, val) == Alloc(mem, NodeObject(type, pos, val, <<>>, 0))
        heapSlice(mem, type, pos, val, ptr, of, elems) ==
            Alloc(Alloc(mem, Array(of, elems)).mem, NodeObject(type, pos, val, ptr, Len(mem) + 1))
        heapControl(mem, type, pos, ptr) == Alloc(mem, NodeObject(type, pos, <<>>, ptr, 0))
        text == heapSlice(<<>>, "NodeText", 0, <<>>, <<>>, "byte", <<"a", "b">>)
        ident == heapLeaf(text.mem, "NodeIdentifier", 2, <<"x">>)
        content == heapSlice(ident.mem, "NodeContent", 0, <<>>, <<>>, "Node", <<text.a, ident.a>>)
        number == heapLeaf(ident.mem, "NodeNumber", 5, <<"1">>)
        expr == heapSlice(number.mem, "NodeExpression", 6, <<"itemEq">>, <<>>, "Node",
                          <<number.a, ident.a>>)
        list == heapSlice(expr.mem, "NodeContent", 7, <<>>, <<>>, "Node", <<text.a>>)
        str == heapLeaf(list.mem, "NodeString", 9, <<"\"", "s", "\"">>)
        elseList == heapSlice(str.mem, "NodeContent", 9, <<>>, <<>>, "Node", <<str.a>>)
        variable == heapSlice(<<>>, "NodeVariable", 0, <<>>, <<>>, "string", <<"$x", "y">>)
        chain == heapSlice(variable.mem, "NodeChain", 0, <<>>, <<variable.a>>, "string", <<"f">>)
    IN  {heapLeaf(<<>>, l[1], 3, l[2]) :
            l \in {<<"NodeIdentifier", <<"x">>>>, <<"NodeBool", <<"true">>>>,
                   <<"NodeNumber", <<"1">>>>, <<"NodeString", <<"\"", "s", "\"">>>>,
                   <<"NodeNil", <<>>>>, <<"nodeEnd", <<"i", "f">>>>, <<"nodeElse", <<>>>>}}
        \cup {text, variable, chain, content, expr,
              heapLeaf(<<>>, "NodeContent", 0, <<>>),
              heapControl(list.mem, "NodeIf", 6, <<expr.a, list.a, 0>>),
              heapControl(list.mem, "NodeList", 6, <<expr.a, list.a, 0>>)}
        \cup {heapControl(elseList.mem, t, 6, <<expr.a, list.a, elseList.a>>) :
                t \in {"NodeIf", "NodeList"}}

\* the objects that are reached from a: through the elements of a []Node,
\* the node fields and the slice of a node
RECURSIVE Reach(_, _)
Reach(mem, a) ==
    LET obj == mem[a]
        refs == IF obj.type = "array"
                THEN IF obj.of = "Node" THEN {obj.elems[k] : k \in DOMAIN obj.elems} ELSE {}
                ELSE {obj.ptr[k] : k \in DOMAIN obj.ptr} \cup {obj.arr}
    IN  {a} \cup UNION {Reach(mem, b) : b \in refs \ {0}}

\* a node and no parsing
HeapInit ==
    /\ input = <<>>
    /\ lx = lexerInit
    /\ lpc = "done"
    /\ out = NoItem
    /\ closed = TRUE
    /\ buf = <<>>
    /\ sent = <<>>
    /\ ppc = "returned"
    /\ received = <<>>
    /\ drained = <<>>
    /\ requests = 0
    /\ tr = NoTree
    /\ treeSet = FreshSet
    /\ \E s \in Samples : heap = [mem |-> s.mem, n |-> s.a, copy |-> 0, writes |-> 0]

\* copy := n.Copy()
CopyNode ==
    /\ heap.n # 0
    /\ heap.copy = 0
    /\ heap' = [heap EXCEPT !.mem = CopyAt(heap.mem, heap.n).mem,
                            !.copy = CopyAt(heap.mem, heap.n).a]
    /\ UNCHANGED <<input, lx, lpc, out, closed, buf, sent, ppc, received, drained, requests,
                   tr, treeSet>>

\* what a write can make of an object: s[k] = x and append(s, x) within the
\* capacity for a slice, x a byte, a string or a nil Node; n.Pos = p for a node
Written(obj) ==
    LET x == IF obj.of = "Node" THEN 0 ELSE "z"
    IN  IF obj.type = "array"
        THEN {[obj EXCEPT !.elems[k] = x] : k \in DOMAIN obj.elems}
             \cup {[obj EXCEPT !.elems = Append(obj.elems, x)]}
        ELSE {[obj EXCEPT !.Pos = obj.Pos + 10]}

\* a write to an object that is reached from the copy
Write ==
    /\ heap.copy # 0
    /\ heap.writes < MaxWrites
    /\ \E a \in Reach(heap.mem, heap.copy) :
        \E obj \in Written(heap.mem[a]) :
            heap' = [heap EXCEPT !.mem[a] = obj, !.writes = heap.writes + 1]
    /\ UNCHANGED <<input, lx, lpc, out, closed, buf, sent, ppc, received, drained, requests,
                   tr, treeSet>>

HeapNext == CopyNode \/ Write

HeapSpec == HeapInit /\ [][HeapNext]_vars

-----------------------------------------------------------------------------
(* Properties.                                                             *)

Last(q) == q[Len(q)]

Terminal(i) == i.typ \in {"itemEOF", "itemError"}

\* the tokens the scanner has emitted: the completed sends, then the one it
\* is parked on
Emitted == IF SenderParked THEN Append(sent, out) ELSE sent

\* Parse has returned an error to its caller
Failed == ppc = "returned" /\ tr.retErr # NoErr

\* C1: a terminal token (EOF or error) is only ever the last token emitted,
\* so there is at most one and nothing follows it; once it is sent the next
\* state is nil, and when the channel is closed the last token sent is one.
C1_OneTerminalLast ==
    /\ \A k \in 1..Len(Emitted) : Terminal(Emitted[k]) => k = Len(Emitted)
    /\ (sent # <<>> /\ Terminal(Last(sent))) => lx.state = "nil"
    /\ closed => sent # <<>> /\ Terminal(Last(sent))

\* the scan has ended on an error token that follows other tokens
C1_Witness ==
    /\ closed
    /\ Len(sent) >= 2
    /\ Last(sent).typ = "itemError"
    /\ sent[1].typ = "itemText"

\* C2: whenever Tree.Parse has returned an error, the channel is closed and
\* the lexer goroutine has left run: it is not parked on a send.
C2_DrainedOnError == Failed => closed /\ lpc = "done" /\ ~SenderParked

\* an error return whose drain took tokens the parser had not asked for
C2_Witness == Failed /\ Len(drained) >= 1 /\ Len(received) >= 2

\* C3: no input makes t.parse() end in a runtime.Error panic, which recover
\* panics again instead of returning it.
C3_NoRuntimeFault == tr.status # "panic"

\* C4: when Tree.Parse has returned an error, the tree returned is nil, the
\* error is one error value, t.Root is nil and t is not in the map; and the
\* map changes only in the step by which Parse returns its tree, so a failed
\* Parse leaves every entry as it found it (Parse(name, text): empty).
C4_FailureLeavesNothing ==
    /\ [](Failed => /\ tr.retTree = "nil"
                    /\ tr.retErr.fmt # ""
                    /\ tr.Root = NilNode
                    /\ \A nm \in Names : treeSet[nm].id # tr.id)
    /\ [][treeSet' # treeSet => ppc' = "returned" /\ tr'.retTree = "t" /\ tr'.retErr = NoErr]_vars

\* a failed Parse, after tokens were parsed, against a map that has an entry
C4_Witness ==
    /\ Failed
    /\ Len(received) >= 2
    /\ \E nm \in Names : treeSet[nm].id = 1

\* C5: the completed sends never outnumber the receives the consumer has
\* started, nothing is ever buffered, and so the only token scanned but not
\* delivered is the one the producer is parked on.
C5_Rendezvous ==
    /\ Len(sent) <= requests
    /\ buf = <<>>
    /\ Len(Emitted) <= Len(sent) + 1
    /\ SenderParked => ppc \notin {"nextItem", "drainWait"}

\* the producer is parked on a token while every request so far is served
C5_Witness == lpc = "emit" /\ Len(sent) >= 2 /\ Len(sent) = requests

IsToken(i) == i # ZeroItem

\* the tokens the consumer has taken off the channel, in the order taken
Delivered == SelectSeq(received, IsToken) \o drained

\* C6: what the consumer has received (first by nextItem, then by drain) is
\* exactly the sequence of completed sends, in that order, and the offsets
\* of successive tokens never decrease; a receive yields no token only once
\* the channel is closed.
C6_SourceOrder ==
    /\ Delivered = sent
    /\ \A k \in 1..(Len(sent) - 1) : sent[k].pos <= sent[k + 1].pos
    /\ \A k \in 1..Len(received) : ~IsToken(received[k]) => closed

\* tokens at three increasing offsets delivered, the last one to drain
C6_Witness ==
    /\ Len(received) >= 2
    /\ Len(drained) >= 1
    /\ received[1].pos < received[2].pos
    /\ received[2].pos < drained[1].pos

\* the least of the offsets at which a marker was found, -1 if none was
Nearest(xs) ==
    IF \A x \in xs : x < 0 THEN -1
    ELSE CHOOSE x \in xs : x >= 0 /\ \A y \in xs : y >= 0 => x <= y

\* where the earliest of the four markers starts in the input, or -1
FirstMarker ==
    Nearest({IndexFrom(input, 0, leftInterpolation), IndexFrom(input, 0, leftComment),
             IndexFrom(input, 0, startDirective), IndexFrom(input, 0, endDirective)})

\* a token without its line
Shape(i) == [typ |-> i.typ, pos |-> i.pos, val |-> i.val]

Contains(text, marker) == IndexFrom(text, 0, marker) >= 0

\* C7: the first Text token is the run before the earliest marker, and no
\* Text token holds "${", "<#" or "</#".
C7_TextStopsAtNearestMarker ==
    /\ (sent # <<>> /\ sent[1].typ = "itemText" /\ FirstMarker >= 0)
            => sent[1].val = Slice(input, 0, FirstMarker)
    /\ \A k \in 1..Len(sent) :
            sent[k].typ = "itemText"
                => /\ ~Contains(sent[k].val, leftInterpolation)
                   /\ ~Contains(sent[k].val, startDirective)
                   /\ ~Contains(sent[k].val, endDirective)

\* the input opens, at its earliest marker, a comment that ends before offset e
CommentUpTo(e) ==
    /\ FirstMarker >= 0
    /\ HasPrefixAt(input, FirstMarker, leftComment)
    /\ IndexFrom(input, FirstMarker + Len(leftComment), rightComment) >= 0
    /\ e = IndexFrom(input, FirstMarker + Len(leftComment), rightComment) + Len(rightComment)

\* C8: when the earliest marker of the input opens a terminated comment, no
\* token's lexeme holds a byte of it, and the text before the comment is a
\* Text token of its own.
C8_CommentDiscarded ==
    \A e \in 0..Len(input) :
        CommentUpTo(e) =>
            /\ \A k \in 1..Len(sent) :
                    sent[k].typ # "itemError"
                        => \/ sent[k].pos + Len(sent[k].val) <= FirstMarker
                           \/ sent[k].pos >= e
            /\ (sent # <<>> /\ FirstMarker > 0)
                    => Shape(sent[1]) = [typ |-> "itemText", pos |-> 0,
                                         val |-> Slice(input, 0, FirstMarker)]

\* the earliest marker of the input opens a comment that nothing closes
UnclosedComment ==
    /\ FirstMarker >= 0
    /\ HasPrefixAt(input, FirstMarker, leftComment)
    /\ IndexFrom(input, FirstMarker + Len(leftComment), rightComment) < 0

\* C9: when the earliest marker of the input opens a comment that nothing
\* closes, the whole scan is the text before it (if any) and then the one
\* error "unclosed comment".
C9_UnclosedCommentIsTheOnlyError ==
    (closed /\ UnclosedComment)
        => /\ Shape(Last(sent)) = [typ |-> "itemError", pos |-> FirstMarker,
                                   val |-> <<"unclosed comment">>]
           /\ Len(sent) = IF FirstMarker > 0 THEN 2 ELSE 1
           /\ FirstMarker > 0
                => Shape(sent[1]) = [typ |-> "itemText", pos |-> 0,
                                     val |-> Slice(input, 0, FirstMarker)]

\* the end offset of a token
End(i) == i.pos + Len(i.val)

\* an identifier that is no keyword
IsIdentifierWord(x) ==
    /\ Len(x) >= 1
    /\ \A k \in 1..Len(x) : isAlphaNumeric(x[k])
    /\ x[1] \notin Digits
    /\ directives(x) = "none"
    /\ comparators(x) = "none"
    /\ x \notin {<<"t", "r", "u", "e">>, <<"f", "a", "l", "s", "e">>}

\* a decimal integer literal
IsNumberLiteral(x) == Len(x) >= 1 /\ AllIn(x, Digits)

\* the expression between "${" and "}" when the input is one interpolation
Inner == Slice(input, Len(leftInterpolation), Len(input) - Len(rightInterpolation))

OneInterpolation ==
    /\ Len(input) >= 3
    /\ input = leftInterpolation \o Inner \o rightInterpolation
    /\ IsIdentifierWord(Inner) \/ IsNumberLiteral(Inner)

-----------------------------------------------------------------------------
\* the input holds none of "${", "<#", "</#" (and so no "<#--" either)
MarkerFree ==
    /\ ~Contains(input, leftInterpolation)
    /\ ~Contains(input, startDirective)
    /\ ~Contains(input, endDirective)

\* the map holds a non-empty tree of an earlier Parse under the name of tr
Redefines ==
    /\ treeSet[tr.Name].id \notin {0, tr.id}
    /\ IsEmptyTree(treeSet[tr.Name].Root) = "false"

\* nothing is left to run in either goroutine: the lexer is parked on a send
\* or has left run, the parser waits for an item or has left Parse
Ended == lpc # "run" /\ ppc \notin {"parse", "drain", "drained"}

(* C11: for an input without markers Parse never fails, it ends by         *)
(* returning the tree, and the root's String() under the default text      *)
(* format "%s" is the input, the empty input giving the empty string.      *)
(* Parse here is Parse(name, text), or Tree.Parse with a map in which the  *)
(* name is not yet taken by a non-empty tree or with a body of white space *)
(* (the other case is that of C16).                                        *)
C11_MarkerFreeRoundTrip ==
    LET markerFree == MarkerFree /\ (~Redefines \/ AllIn(input, WhiteSpace))
    IN  /\ tr.status \in {"err", "panic", "panicString"} => ~markerFree
        /\ Ended /\ ppc # "returned" => ~markerFree
        /\ ppc = "returned" /\ markerFree =>
                tr.retTree = "t" /\ tr.retErr = NoErr /\ String(tr.Root, "%s") = input

C11_Witness ==
    /\ MarkerFree
    /\ ppc = "returned"
    /\ tr.retTree = "t"
    /\ Len(tr.Root.Nodes) = 1
    /\ \E k \in 1..Len(input) : input[k] = "\n"
    /\ \E k \in 1..Len(input) : input[k] = "\""
    /\ String(tr.Root, "%s") = input

-----------------------------------------------------------------------------
\* the Tree that Parse has returned, with the fields Copy and ErrorContext read:
\* Parse sets t.ParseName = t.Name and t.text = text
Parsed == [Name |-> tr.Name, ParseName |-> tr.Name, Root |-> tr.Root, text |-> input]

\* the nodes of the subtree at n, n first
RECURSIVE NodesOf(_)
NodesOf(n) ==
    CASE n.type = "nil" -> <<>>
      [] n.type \in {"NodeContent", "NodeExpression"} ->
            <<n>> \o Flatten([i \in DOMAIN n.Nodes |-> NodesOf(n.Nodes[i])])
      [] n.type = "NodeIf" ->
            <<n>> \o NodesOf(n.Expr) \o NodesOf(n.Content) \o NodesOf(n.ElseContent)
      [] OTHER -> <<n>>

(* C12: for a tree that Parse has returned, the String() of the copy's     *)
(* root (by Tree.Copy and by Root.Copy, under either text format) is that  *)
(* of the root, the copy has a node for each node of the tree, and         *)
(* ErrorContext gives the same location and context for the two, whether   *)
(* the node's own tree is read or the copy that receives the call.         *)
C12_CopyKeepsStringAndContext ==
    ppc = "returned" /\ tr.retTree = "t" =>
        LET copy == Tree_Copy(Parsed)
            nodes == NodesOf(tr.Root)
            copies == NodesOf(copy.Root)
        IN  /\ \A textFormat \in {"%s", "%q"} :
                    /\ String(copy.Root, textFormat) = String(tr.Root, textFormat)
                    /\ String(Copy(tr.Root), textFormat) = String(tr.Root, textFormat)
            /\ Len(copies) = Len(nodes)
            /\ \A k \in 1..Len(nodes) :
                    /\ ErrorContext(Parsed, copies[k]) = ErrorContext(Parsed, nodes[k])
                    /\ ErrorContext(copy, copies[k]) = ErrorContext(Parsed, nodes[k])

\* a returned tree with an if that has an else branch, past the first line,
\* and with a context that ErrorContext cuts short
C12_Witness ==
    /\ ppc = "returned"
    /\ tr.retTree = "t"
    /\ \E k \in 1..Len(NodesOf(tr.Root)) :
            /\ NodesOf(tr.Root)[k].type = "NodeIf"
            /\ NodesOf(tr.Root)[k].ElseContent # NilNode
            /\ Len(String(NodesOf(tr.Root)[k], "%s")) > 20
    /\ \E k \in 1..Len(NodesOf(tr.Root)) :
            ErrorContext(Parsed, NodesOf(Tree_Copy(Parsed).Root)[k]).location[2] > 1

-----------------------------------------------------------------------------
\* the text is made of white space and of closed comments only
RECURSIVE OnlySpaceAndComments(_)
OnlySpaceAndComments(text) ==
    IF text = <<>> THEN TRUE
    ELSE IF text[1] \in WhiteSpace THEN OnlySpaceAndComments(Tail(text))
    ELSE /\ HasPrefixAt(text, 0, leftComment)
         /\ IndexFrom(text, Len(leftComment), rightComment) >= 0
         /\ OnlySpaceAndComments(
                Slice(text, IndexFrom(text, Len(leftComment), rightComment) + Len(rightComment),
                      Len(text)))

\* the tree holds a text that is not white space only, or an if directive
HoldsTextOrDirective(root) ==
    \E k \in 1..Len(NodesOf(root)) :
        \/ NodesOf(root)[k].type = "NodeIf"
        \/ NodesOf(root)[k].type = "NodeText" /\ ~AllIn(NodesOf(root)[k].Text, WhiteSpace)

(* C13: IsEmptyTree(nil) is true; of the root of a tree that Parse has     *)
(* returned for a text of white space and comments only it is true; of a   *)
(* root that holds a text with other than white space, or a directive, it  *)
(* is false.                                                               *)
C13_IsEmptyTree ==
    /\ IsEmptyTree(NilNode) = "true"
    /\ ppc = "returned" /\ tr.retTree = "t" =>
        /\ OnlySpaceAndComments(input) => IsEmptyTree(tr.Root) = "true"
        /\ HoldsTextOrDirective(tr.Root) => IsEmptyTree(tr.Root) = "false"

-----------------------------------------------------------------------------
\* the text <#if x == y>t</#if>u
IfEq(x, y, t, u) ==
    IfText(<<" ">> \o x \o <<" ", "=", "=", " ">> \o y, t, <<>>, 0, FALSE) \o u

\* the texts <#if X == Y>T</#if>U with their parts
SimpleIfs ==
    {<<x, y, t, u, IfEq(x, y, t, u)>> : x \in Idents, y \in Idents, t \in Bodies, u \in Bodies}

(* C14: Parse of <#if X == Y>T</#if>U, X and Y identifiers, T and U texts  *)
(* without markers, does not fail and returns a root with the children     *)
(* If and Text U; the If's condition is one "==" expression whose operands *)
(* are Y, then X, and its content is the Text T, so that with texts        *)
(* printed by "%q" the root's String() is <#if Y==X>"T"</#if>"U".          *)
C14_SimpleIf ==
    \A x \in Idents, y \in Idents, t \in Bodies, u \in Bodies :
        <<x, y, t, u, input>> \in SimpleIfs /\ ~Redefines =>
            /\ tr.status \notin {"err", "panic", "panicString"}
            /\ Ended => ppc = "returned"
            /\ ppc = "returned" =>
                /\ tr.retTree = "t"
                /\ Len(tr.Root.Nodes) = 2
                /\ tr.Root.Nodes[1].type = "NodeIf"
                /\ tr.Root.Nodes[1].Expr.type = "NodeExpression"
                /\ tr.Root.Nodes[1].Expr.operator = "itemEq"
                /\ Len(tr.Root.Nodes[1].Expr.Nodes) = 2
                /\ tr.Root.Nodes[1].Expr.Nodes[1].type = "NodeIdentifier"
                /\ tr.Root.Nodes[1].Expr.Nodes[1].Ident = y
                /\ tr.Root.Nodes[1].Expr.Nodes[2].type = "NodeIdentifier"
                /\ tr.Root.Nodes[1].Expr.Nodes[2].Ident = x
                /\ Len(tr.Root.Nodes[1].Content.Nodes) = 1
                /\ tr.Root.Nodes[1].Content.Nodes[1].type = "NodeText"
                /\ tr.Root.Nodes[1].Content.Nodes[1].Text = t
                /\ tr.Root.Nodes[1].ElseContent = NilNode
                /\ tr.Root.Nodes[2].type = "NodeText"
                /\ tr.Root.Nodes[2].Text = u
                /\ String(tr.Root, "%q")
                   = <<"<", "#", "i", "f", " ">> \o y \o <<"=", "=">> \o x \o <<">">> \o Quote(t)
                     \o <<"<", "/", "#", "i", "f", ">">> \o Quote(u)

\* the test's text with c for its two texts: <#if a == b>c</#if>c has returned
C14_Witness ==
    /\ input = IfEq(<<"a">>, <<"b">>, <<"c">>, <<"c">>)
    /\ ppc = "returned"
    /\ tr.retTree = "t"
    /\ String(tr.Root, "%q")
       = <<"<", "#", "i", "f", " ", "b", "=", "=", "a", ">", "\"", "c", "\"",
           "<", "/", "#", "i", "f", ">", "\"", "c", "\"">>

-----------------------------------------------------------------------------
(* C15: Parse of an if directive without a condition, <#if></#if> with     *)
(* nothing or a space between the tags, ends by returning an error and no  *)
(* tree.                                                                   *)
C15_EmptyDirectiveFails ==
    (\E t \in {<<>>, <<" ">>} : input = IfText(<<>>, t, <<>>, 0, FALSE)) =>
        /\ tr.status \notin {"panic", "panicString"}
        /\ Ended => ppc = "returned" /\ tr.retErr # NoErr /\ tr.retTree = "nil"

-----------------------------------------------------------------------------
MultipleDefinition == "template: multiple definition of template %q"

(* C16: when the map holds a non-empty tree under the name of t and the    *)
(* text of t.Parse, which is not of white space and comments only, has     *)
(* been parsed, t.add() raises the error of a multiple definition and      *)
(* leaves the map as it is; it never panics otherwise, and Parse ends by   *)
(* returning that error and no tree.                                       *)
C16_MultipleDefinition ==
    Redefines /\ ~OnlySpaceAndComments(input) =>
        /\ ppc = "parse" /\ tr.status = "ok" =>
            /\ add(tr, treeSet).t.status = "err"
            /\ add(tr, treeSet).t.err.fmt = MultipleDefinition
            /\ add(tr, treeSet).t.err.ctx = tr.Name
            /\ add(tr, treeSet).set = treeSet
        /\ tr.status # "panicString"
        /\ tr.err.fmt = MultipleDefinition /\ Ended =>
            ppc = "returned" /\ tr.retErr = tr.err /\ tr.retTree = "nil"

(* C17: an entry of the map that is a non-empty tree is never replaced; a  *)
(* Parse of white space and comments under such a name raises no error,    *)
(* returns its tree and leaves the entry; a Parse that succeeds under a    *)
(* name that is absent or holds an empty tree puts its own tree there.     *)
C17_KeptEntry ==
    \A name \in DOMAIN treeSet :
        treeSet[name].id # 0 /\ IsEmptyTree(treeSet[name].Root) = "false"
            => treeSet'[name] = treeSet[name]

C17_EmptyBody ==
    Redefines /\ OnlySpaceAndComments(input) =>
        /\ tr.status \notin {"err", "panic", "panicString"}
        /\ Ended => ppc = "returned" /\ tr.retErr = NoErr /\ tr.retTree = "t"

C17_Replaced ==
    ~Redefines /\ ppc = "returned" /\ tr.retErr = NoErr =>
        treeSet[tr.Name] = [Root |-> tr.Root, id |-> tr.id]

C17_FirstDefinitionStays ==
    [](C17_EmptyBody /\ C17_Replaced) /\ [][C17_KeptEntry]_vars

-----------------------------------------------------------------------------
\* the else keyword, spaces, the if keyword
ElseSpaceIf == {kw \in ElseIfs : \E i \in 1..Len(kw) : kw[i] = " "}

\* the chains <#if a == b>T, k times <#KW b>c, <#else>d or nothing, </#if>
Chains ==
    {<<kw, k, else,
       IfText(<<" ", "a", " ", "=", "=", " ", "b">>, <<"c", " ", "\n", "d", "e">>, kw, k, else)>> :
        kw \in ElseIfs, k \in 1..MaxChain, else \in BOOLEAN}

\* the end tags among the tokens
Ends(items) == {i \in 1..Len(items) : items[i].typ = "itemEndDirective"}

\* n is the If of a chain of k more "else if b>c" branches and then, with
\* else, the branch "else>d"
RECURSIVE IsChain(_, _, _, _)
IsChain(n, list, k, else) ==
    /\ n.type = "NodeIf"
    /\ n.Content.type = "NodeContent"
    /\ Len(n.Content.Nodes) = 1
    /\ n.Content.Nodes[1].type = "NodeText"
    /\ n.Content.Nodes[1].Text = list
    /\ IF k > 0
       THEN /\ n.ElseContent.type = "NodeContent"
            /\ Len(n.ElseContent.Nodes) = 1
            /\ String(n.ElseContent.Nodes[1].Expr, "%s") = <<"b">>
            /\ IsChain(n.ElseContent.Nodes[1], <<"c">>, k - 1, else)
       ELSE IF else
       THEN /\ n.ElseContent.type = "NodeContent"
            /\ Len(n.ElseContent.Nodes) = 1
            /\ n.ElseContent.Nodes[1].type = "NodeText"
            /\ n.ElseContent.Nodes[1].Text = <<"d">>
       ELSE n.ElseContent = NilNode

(* C18: Parse of <#if a == b>T, then k times <#else if b>c with one or     *)
(* more spaces after else, then <#else>d or nothing, then one </#if>, does *)
(* not fail; the root's one child is an If whose ElseContent is a Content  *)
(* with one child, the If of the next branch, and so on down the chain,    *)
(* the last If having the else text or no ElseContent; the parser has      *)
(* received one End token, and the lexer has sent one.                     *)
C18_ElseIfChain ==
    \A kw \in ElseSpaceIf, k \in 1..MaxChain, else \in BOOLEAN :
        <<kw, k, else, input>> \in Chains /\ ~Redefines =>
            /\ tr.status \notin {"err", "panic", "panicString"}
            /\ Ended => ppc = "returned"
            /\ ppc = "returned" =>
                /\ tr.retTree = "t"
                /\ tr.retErr = NoErr
                /\ Len(tr.Root.Nodes) = 1
                /\ String(tr.Root.Nodes[1].Expr, "%s") = <<"b", "=", "=", "a">>
                /\ IsChain(tr.Root.Nodes[1], <<"c", " ", "\n", "d", "e">>, k, else)
                /\ Cardinality(Ends(received)) = 1
                /\ Cardinality(Ends(sent)) = 1

\* a chain of two branches with two spaces after else and a last else
C18_Witness ==
    /\ input = IfText(<<" ", "a", " ", "=", "=", " ", "b">>, <<"c", " ", "\n", "d", "e">>,
                      <<"e", "l", "s", "e", " ", " ", "i", "f">>, 2, TRUE)
    /\ ppc = "returned"
    /\ tr.retTree = "t"
    /\ tr.Root.Nodes[1].ElseContent.Nodes[1].ElseContent.Nodes[1].ElseContent.Nodes[1].Text = <<"d">>

\* the elseif keyword
ElseIfWord == ElseIfs \ ElseSpaceIf

(* C19: Parse of <#if a == b>T, then k times <#elseif b>c, then <#else>d   *)
(* or nothing, then one </#if>, does not fail and returns a root whose one *)
(* child is an If that holds the If of each elseif branch in the else      *)
(* branch of the If before it.                                             *)
C19_ElseifChain ==
    \A kw \in ElseIfWord, k \in 1..MaxChain, else \in BOOLEAN :
        <<kw, k, else, input>> \in Chains /\ ~Redefines =>
            /\ tr.status \notin {"err", "panic", "panicString"}
            /\ Ended => ppc = "returned"
            /\ ppc = "returned" =>
                /\ tr.retTree = "t"
                /\ tr.retErr = NoErr
                /\ Len(tr.Root.Nodes) = 1
                /\ IsChain(tr.Root.Nodes[1], <<"c", " ", "\n", "d", "e">>, k, else)

-----------------------------------------------------------------------------
\* the texts of the corpus that hold the operator op between a and b
ArithmeticTexts(op) ==
    {leftInterpolation \o <<"a">> \o w \o op \o w \o <<"b">> \o rightInterpolation : w \in {<<>>, <<" ">>}}
    \cup {IfText(<<" ", "a">> \o w \o op \o w \o <<"b">>, <<"c">>, <<>>, 0, FALSE) : w \in {<<>>, <<" ">>}}

\* the items of the given type
Typed(items, typ) == {i \in 1..Len(items) : items[i].typ = typ}

(* C20: of ${a OP b} and <#if a OP b>c</#if>, OP one of + - * / with or    *)
(* without spaces around it, the lexer neither sends nor holds an error    *)
(* token; once the closer is sent, one token of the operator's type, whose *)
(* value is the operator, has been sent between the two identifiers; and   *)
(* the lexer does not close the channel before it has sent the closer.     *)
C20_ArithmeticTokens ==
    \A op \in {<<"+", "itemAdd">>, <<"-", "itemMinus">>, <<"*", "itemMultiply">>, <<"/", "itemDivide">>} :
        input \in ArithmeticTexts(<<op[1]>>) =>
            LET closers == Typed(sent, "itemRightInterpolation") \cup Typed(sent, "itemCloseDirective")
                idents == Typed(sent, "itemIdentifier")
            IN  /\ Typed(sent, "itemError") = {}
                /\ out.typ # "itemError"
                /\ closers # {} =>
                    /\ Cardinality(Typed(sent, op[2])) = 1
                    /\ \A i \in Typed(sent, op[2]) :
                        /\ sent[i].val = <<op[1]>>
                        /\ \E j \in idents : j < i
                        /\ \E j \in idents : i < j
                /\ closed => closers # {}

-----------------------------------------------------------------------------
\* the item type of a symbol comparator
ComparatorType(op) ==
    CASE op = <<"=", "=">> -> "itemEq"
      [] op = <<"!", "=">> -> "itemNeq"
      [] op = <<"<", "=">> -> "itemLessEq"
      [] op = <<"<">> -> "itemLess"

\* the interpolations ${1 OP 2}, with and without a space on either side
Comparisons ==
    {<<op, v, w, Interpolation(<<"1">> \o v \o op \o w \o <<"2">>)>> :
        op \in Comparators, v \in Blank, w \in Blank}

(* C21: of ${1 OP 2}, OP one of == != <= <, with or without a space before *)
(* and after OP, the lexer neither sends nor holds an error token, and     *)
(* once "}" is sent it has sent one comparator token, of OP's type and     *)
(* with OP as its value, at the offset of OP, and none of another type.    *)
C21_Comparators ==
    \A op \in Comparators, v \in Blank, w \in Blank :
        <<op, v, w, input>> \in Comparisons =>
            /\ Typed(sent, "itemError") = {}
            /\ out.typ # "itemError"
            /\ Typed(sent, "itemRightInterpolation") # {} =>
                /\ \A i \in 1..Len(sent) :
                        sent[i].typ \in {"itemEq", "itemNeq", "itemLessEq", "itemLess"}
                            => /\ sent[i].typ = ComparatorType(op)
                               /\ sent[i].val = op
                               /\ sent[i].pos = 3 + Len(v)
                /\ Cardinality(Typed(sent, ComparatorType(op))) = 1

-----------------------------------------------------------------------------
\* the if directives <#if a OP b>c</#if> with a keyword comparator
KeywordComparisons ==
    {<<op, IfText(<<" ", "a", " ">> \o op \o <<" ", "b">>, <<"c">>, <<>>, 0, FALSE)>> :
        op \in KeywordComparators}

(* C22: of <#if a gt b>c</#if> and <#if a gte b>c</#if> the lexer sends    *)
(* one operator token, Greater or GreaterEq, once ">" is sent; Parse does  *)
(* not fail, and it returns a root whose one child is an If with, as its   *)
(* condition, an Expression of that operator over the two identifiers.     *)
C22_KeywordComparators ==
    \A op \in KeywordComparators :
        <<op, input>> \in KeywordComparisons =>
            LET typ == IF op = <<"g", "t">> THEN "itemGreater" ELSE "itemGreaterEq"
            IN  /\ Typed(sent, "itemCloseDirective") # {} =>
                    /\ Cardinality(Typed(sent, typ)) = 1
                    /\ \A i \in Typed(sent, typ) : sent[i].val = op
                /\ tr.status \notin {"err", "panic", "panicString"}
                /\ Ended => ppc = "returned"
                /\ ppc = "returned" =>
                    /\ tr.retTree = "t"
                    /\ tr.retErr = NoErr
                    /\ Len(tr.Root.Nodes) = 1
                    /\ tr.Root.Nodes[1].type = "NodeIf"
                    /\ tr.Root.Nodes[1].Expr.type = "NodeExpression"
                    /\ tr.Root.Nodes[1].Expr.operator = typ
                    /\ Len(tr.Root.Nodes[1].Expr.Nodes) = 2
                    /\ {tr.Root.Nodes[1].Expr.Nodes[k].Ident : k \in 1..2} = {<<"a">>, <<"b">>}

-----------------------------------------------------------------------------
\* ${E} and <#if E>c</#if>
InBoth(e) == {Interpolation(e), IfText(<<" ">> \o e, <<"c">>, <<>>, 0, FALSE)}

\* the texts whose one expression has a ")" too many, and a "(" too many
Unopened == UNION {InBoth(e) : e \in CloseParens}
Unclosed == UNION {InBoth(e) : e \in OpenParens}

(* C23: of an interpolation or directive whose expression has a ")" more   *)
(* than "(" before it, or a "(" that no ")" has matched at the closer, the *)
(* lexer sends no closer token, and when it has closed the channel the     *)
(* last token sent is an error token.                                      *)
C23_UnbalancedParens ==
    input \in Unopened \cup Unclosed =>
        /\ Typed(sent, "itemRightInterpolation") \cup Typed(sent, "itemCloseDirective") = {}
        /\ closed => Last(sent).typ = "itemError"

-----------------------------------------------------------------------------
\* Parse does not abort, and it ends by returning no tree and an error made
\* from the format fmt
Rejected(fmt) ==
    /\ tr.status \notin {"panic", "panicString"}
    /\ Ended => ppc = "returned"
    /\ ppc = "returned" => tr.retTree = "nil" /\ tr.retErr.fmt = fmt

(* C24: Parse of a text with an end tag or an else directive where no if   *)
(* is open returns the error "unexpected %s" of the End or Else marker, and *)
(* Parse of a text that ends inside an if returns "unexpected EOF"; in     *)
(* neither case does it return a tree.                                     *)
C24_UnbalancedMarkers ==
    /\ input \in StrayEnds =>
        Rejected("unexpected %s") /\ (ppc = "returned" => tr.retErr.node.type = "nodeEnd")
    /\ input \in StrayElses =>
        Rejected("unexpected %s") /\ (ppc = "returned" => tr.retErr.node.type = "nodeElse")
    /\ input \in OpenIfs => Rejected("unexpected EOF")

-----------------------------------------------------------------------------
(* C25: the End marker that Parse reports for the stray end tag </#if>     *)
(* holds the name if; and Parse of an if that is closed by </#list>, with  *)
(* or without an else branch, does not abort and returns an error and no   *)
(* tree, whereas closed by </#if> it returns the tree.                     *)
C25_EndTagNames ==
    /\ input = endDirective \o <<"i", "f", ">">> /\ ppc = "returned" =>
        /\ tr.retErr.node.type = "nodeEnd"
        /\ tr.retErr.node.identifier = <<"i", "f">>
    /\ \A else \in {<<>>, <<"d">>} :
        /\ input = EndTagged(else, <<"l", "i", "s", "t">>) =>
            /\ tr.status \notin {"panic", "panicString"}
            /\ Ended => ppc = "returned"
            /\ ppc = "returned" => tr.retTree = "nil" /\ tr.retErr # NoErr
        /\ input = EndTagged(else, <<"i", "f">>) =>
            /\ tr.status \notin {"err", "panic", "panicString"}
            /\ Ended => ppc = "returned"
            /\ ppc = "returned" => tr.retTree = "t" /\ tr.retErr = NoErr

-----------------------------------------------------------------------------
\* the node at a with all it holds, addresses left out
RECURSIVE Value(_, _)
Value(mem, a) ==
    IF a = 0 THEN NilNode
    ELSE IF mem[a].type = "array"
    THEN [mem[a] EXCEPT !.elems = IF mem[a].of = "Node"
                                  THEN [k \in DOMAIN mem[a].elems |-> Value(mem, mem[a].elems[k])]
                                  ELSE mem[a].elems]
    ELSE [mem[a] EXCEPT !.ptr = [k \in DOMAIN mem[a].ptr |-> Value(mem, mem[a].ptr[k])],
                        !.arr = Value(mem, mem[a].arr)]

\* the copy shares no object with the node it was made from
C26_Disjoint ==
    heap.copy # 0 => Reach(heap.mem, heap.copy) \cap Reach(heap.mem, heap.n) = {}

\* the copy as Copy returns it is equal to the node, tr, Pos and text included
C26_Equal ==
    heap.copy # 0 /\ heap.writes = 0 => Value(heap.mem, heap.copy) = Value(heap.mem, heap.n)

\* no step changes the node Copy was called on
C26_Kept == Value(heap'.mem, heap.n) = Value(heap.mem, heap.n)

(* C26: for a node of each type, the node that Copy() returns holds no     *)
(* node and no slice that the original holds and is equal to it, tr, Pos   *)
(* and text included; and no write to an object held by the copy, to a     *)
(* slice element, by append or to a field, changes the original.           *)
C26_CopySharesNothing == [](C26_Disjoint /\ C26_Equal) /\ [][C26_Kept]_vars

-----------------------------------------------------------------------------
\* a Tree of another name and text
Other == [Name |-> "U", ParseName |-> "U", Root |-> NilNode, text |-> <<"\n", "\n">>]

(* C27: for every node n of a tree that Parse has returned, ErrorContext   *)
(* called on another Tree gives the ParseName of n's own tree, as line 1 + *)
(* the number of newlines in the first n.Position() bytes of the text, as  *)
(* column the number of bytes after the last of them (all the bytes when   *)
(* there is none), and as context n.String(), cut after 20 bytes and       *)
(* followed by "..." when it is longer; called for a node without a tree   *)
(* it gives the same from the receiver.                                    *)
C27_ErrorContext ==
    ppc = "returned" /\ tr.retTree = "t" =>
        LET nodes == NodesOf(tr.Root)
        IN  \A k \in 1..Len(nodes) :
                LET pos == nodes[k].pos
                    str == String(nodes[k], "%s")
                    L == 1 + Cardinality({j \in 1..pos : input[j] = "\n"})
                    C == Cardinality({j \in 1..pos : \A i \in j..pos : input[i] # "\n"})
                    got == ErrorContext(nodeTree(Other, Parsed), nodes[k])
                IN  /\ got.location = <<tr.Name, L, C>>
                    /\ Len(str) <= 20 => got.context = str
                    /\ Len(str) > 20 =>
                        got.context = [i \in 1..23 |-> IF i <= 20 THEN str[i] ELSE "."]
                    /\ ErrorContext(nodeTree(Parsed, NilNode), nodes[k]) = got

\* a node on the second line and past its start, and a node with a long context
C27_Witness ==
    /\ ppc = "returned"
    /\ tr.retTree = "t"
    /\ \E k \in 1..Len(NodesOf(tr.Root)) :
            /\ ErrorContext(nodeTree(Other, Parsed), NodesOf(tr.Root)[k]).location[2] = 2
            /\ ErrorContext(nodeTree(Other, Parsed), NodesOf(tr.Root)[k]).location[3] > 0
    /\ \E k \in 1..Len(NodesOf(tr.Root)) :
            Len(ErrorContext(nodeTree(Other, Parsed), NodesOf(tr.Root)[k]).context) = 23

-----------------------------------------------------------------------------
\* the line on which the byte after offset pos stands
LineAt(pos) == 1 + Cardinality({j \in 1..pos : input[j] = "\n"})

-----------------------------------------------------------------------------
\* the expressions a.b OP c with their OP, in an interpolation and in an if
Reduced ==
    {<<op, Interpolation(<<"a", ".", "b", " ">> \o op \o <<" ", "c">>)>> : op \in Comparators}
    \cup {<<op, IfText(<<" ", "a", ".", "b", " ">> \o op \o <<" ", "c">>, <<"c">>, <<>>, 0, FALSE)>> :
            op \in Comparators}

\* the first expression of the tree: the interpolation or the if's condition
FirstExpr ==
    IF tr.Root.Nodes[1].type = "NodeIf" THEN tr.Root.Nodes[1].Expr ELSE tr.Root.Nodes[1]

(* C29: of a.b OP c, OP a comparator (of lower precedence than "."), the   *)
(* expression engine combines a and b under "." when it meets OP, pushes   *)
(* OP and goes on: Parse ends without a run-time fault, and the tree it    *)
(* returns has as expression OP over the operand c and the Expression "."  *)
(* over a and b.                                                           *)
C29_Reduce ==
    \A op \in Comparators :
        <<op, input>> \in Reduced =>
            /\ tr.status # "panic"
            /\ ppc = "returned" =>
                /\ tr.retTree = "t"
                /\ FirstExpr.type = "NodeExpression"
                /\ FirstExpr.operator = ComparatorType(op)
                /\ Len(FirstExpr.Nodes) = 2
                /\ \E i \in 1..2 :
                        /\ FirstExpr.Nodes[i].type = "NodeExpression"
                        /\ FirstExpr.Nodes[i].operator = "itemDot"
                        /\ {FirstExpr.Nodes[i].Nodes[j].Ident : j \in 1..Len(FirstExpr.Nodes[i].Nodes)}
                           = {<<"a">>, <<"b">>}
                        /\ FirstExpr.Nodes[3 - i].type = "NodeIdentifier"
                        /\ FirstExpr.Nodes[3 - i].Ident = <<"c">>

-----------------------------------------------------------------------------
\* the tokens that expression() pushes as operands, and the nodes it makes of them
OperandTokens == {"itemBool", "itemCharConstant", "itemNumber", "itemIdentifier",
                  "itemStringConstant"}
OperandNodes == {"NodeBool", "NodeNumber", "NodeIdentifier", "NodeString"}

(* C30: when Parse has returned a tree, every operand token that the       *)
(* expression engine was given is a node of the tree: the tree has as many *)
(* operand nodes as operand tokens were received, and an Expression        *)
(* without operator holds one operand, one with an operator two.           *)
C30_NoOperandDropped ==
    ppc = "returned" /\ tr.retTree = "t" =>
        LET nodes == NodesOf(tr.Root)
        IN  /\ Cardinality({k \in 1..Len(nodes) : nodes[k].type \in OperandNodes})
               = Cardinality({k \in 1..Len(received) : received[k].typ \in OperandTokens})
            /\ \A k \in 1..Len(nodes) :
                    nodes[k].type = "NodeExpression" =>
                        Len(nodes[k].Nodes)
                        = IF nodes[k].operator = "itemLowestPrecOpt" THEN 1 ELSE 2

-----------------------------------------------------------------------------
\* the texts whose expression has two operators on the stack at the closer,
\* with the context of the expression
TwoOperators ==
    {<<"interpolation", Interpolation(e)>> : e \in Stacked}
    \cup {<<"if", IfText(<<" ">> \o e, <<"c">>, <<>>, 0, FALSE)>> : e \in Stacked}

(* C31: of an expression that reaches its closer with two operators above  *)
(* the sentinel (a == b == c, a == b != c, a == b.c), in an interpolation  *)
(* or an if, Parse ends without a run-time fault and returns no tree but   *)
(* the error "unexpected <closer> in <context>".                           *)
C31_OperatorLeftOver ==
    \A context \in {"interpolation", "if"} :
        <<context, input>> \in TwoOperators =>
            /\ tr.status # "panic"
            /\ Ended => ppc = "returned"
            /\ ppc = "returned" =>
                /\ tr.retTree = "nil"
                /\ tr.retErr.fmt = "unexpected %s in %s"
                /\ tr.retErr.ctx = context
                /\ tr.retErr.tok.typ \in {"itemCloseDirective", "itemRightInterpolation"}

\* ${a == b == c} and <#if a == b.c>c</#if> have been refused
C31_Witness ==
    /\ ppc = "returned"
    /\ tr.retErr.fmt = "unexpected %s in %s"
    /\ \/ /\ input = Interpolation(<<"a", " ", "=", "=", " ", "b", " ", "=", "=", " ", "c">>)
          /\ tr.retErr.tok.typ = "itemRightInterpolation"
       \/ /\ input = IfText(<<" ", "a", " ", "=", "=", " ", "b", ".", "c">>, <<"c">>, <<>>, 0, FALSE)
          /\ tr.retErr.tok.typ = "itemCloseDirective"

-----------------------------------------------------------------------------
\* the Content nodes of the tree that hold an interpolation, and the Ifs
\* that have an else branch
Interpolations(nodes) ==
    {k \in 1..Len(nodes) :
        /\ nodes[k].type = "NodeContent"
        /\ \E i \in 1..Len(nodes[k].Nodes) : nodes[k].Nodes[i].type = "NodeExpression"}
WithElse(nodes) ==
    {k \in 1..Len(nodes) : nodes[k].type = "NodeIf" /\ nodes[k].ElseContent # NilNode}

(* C32: the root's String() under "%s" of a tree that Parse has returned   *)
(* is in surface syntax, as it must be for its parse to give an equal      *)
(* tree (the scanner makes an interpolation only of "${" and an else       *)
(* branch only of "<#else"): if the tree has an interpolation the string   *)
(* has a "${", and if an If of the tree has an else branch the string of   *)
(* that If has a "<#else".                                                 *)
C32_StringIsSurfaceSyntax ==
    ppc = "returned" /\ tr.retTree = "t" =>
        LET nodes == NodesOf(tr.Root)
        IN  /\ Interpolations(nodes) # {} => Contains(String(tr.Root, "%s"), leftInterpolation)
            /\ \A k \in WithElse(nodes) :
                    Contains(String(nodes[k], "%s"), startDirective \o <<"e", "l", "s", "e">>)

-----------------------------------------------------------------------------
\* the keywords typ among the items that open a directive: those of an end
\* tag, which follow the "</#", are its name
Keywords(items, typ) == {i \in Typed(items, typ) : items[i - 1].typ # "itemEndDirective"}

-----------------------------------------------------------------------------
\* the types of the nodes that make no part of a tree
Markers == {"nodeEnd", "nodeElse", "nil"}

(* C34: in a tree that Parse has returned the root is a Content, and no    *)
(* child of a Content (the root, an If's content or else branch) or of an  *)
(* Expression, and no condition or content of an If, is an End marker, an  *)
(* Else marker or nil.                                                     *)
C34_NoMarkerInTree ==
    ppc = "returned" /\ tr.retTree = "t" =>
        LET nodes == NodesOf(tr.Root)
        IN  /\ tr.Root.type = "NodeContent"
            /\ \A k \in 1..Len(nodes) :
                    /\ nodes[k].type \notin Markers
                    /\ nodes[k].type \in {"NodeContent", "NodeExpression"} =>
                            \A i \in 1..Len(nodes[k].Nodes) : nodes[k].Nodes[i].type \notin Markers
                    /\ nodes[k].type = "NodeIf" =>
                            nodes[k].Expr.type \notin Markers /\ nodes[k].Content.type \notin Markers

\* a tree for which the parser has made an Else marker and an End marker
C34_Witness ==
    /\ ppc = "returned"
    /\ tr.retTree = "t"
    /\ Keywords(received, "itemDirectiveElse") # {}
    /\ Typed(received, "itemEndDirective") # {}

-----------------------------------------------------------------------------
\* the closing tokens
Closers == {"itemCloseDirective", "itemRightInterpolation"}

\* the item after items[i] that closes what items[i] opens: the first closer
ClosedBy(items, i) ==
    LET after == {j \in (i + 1)..Len(items) : items[j].typ \in Closers}
    IN  IF after = {} THEN NoItem ELSE items[CHOOSE j \in after : \A k \in after : j <= k]

(* C35: when Parse has returned a tree, the first closing token after each *)
(* "${" the parser received is a "}" and the first after each "<#" is a    *)
(* ">".                                                                    *)
C35_MatchingCloser ==
    ppc = "returned" /\ tr.retTree = "t" =>
        /\ \A i \in Typed(received, "itemLeftInterpolation") :
                ClosedBy(received, i).typ = "itemRightInterpolation"
        /\ \A i \in Typed(received, "itemStartDirective") :
                ClosedBy(received, i).typ = "itemCloseDirective"

-----------------------------------------------------------------------------
\* the state functions in the order in which one hands on to another
\* without a byte consumed between them
Rank(st) ==
    CASE st \in {"lexText", "lexSpace"} -> 4
      [] st = "lexDirective" -> 3
      [] st \in {"lexDirective_end", "lexExpression_lparen", "lexExpression_rparen"} -> 2
      [] st = "lexExpression" -> 1
      [] st = "nil" -> -1
      [] OTHER -> 0

\* the states at which a state function is entered, not resumed after a send
Entries == {"lexText", "lexInterpolation", "lexComment", "lexExpression", "lexDirective",
            "lexSpace", "lexIdentifier", "lexComparator", "lexChar", "lexString", "lexNumber"}

\* the scan is over, or the consumer has been aborted and asks for no more
Over == closed \/ ppc = "panicked"

(* C36 as stated: under fair scheduling the scan ends and the channel is   *)
(* closed unless the consumer has stopped asking, and every run of a state *)
(* function consumes at least one byte of the input or ends the scan (the  *)
(* terminal token is followed by the nil state).                           *)
C36_EveryStateConsumes ==
    /\ <>Over
    /\ [][lpc = "run" /\ lx.state \in Entries /\ lx' # lx /\ lpc' # "done"
            => lx'.pos > lx.pos \/ lx'.state = "nil"]_vars

(* C36: under fair scheduling the scan ends and the channel is closed      *)
(* unless the consumer has stopped asking; every run of a state function   *)
(* consumes at least one byte or hands on to a state function further down *)
(* the order lexText, lexSpace; lexDirective; lexExpression; the others;   *)
(* nil, so runs that consume nothing come at most four in a row.           *)
C36_ScanTerminates ==
    /\ <>Over
    /\ [][lpc = "run" /\ lx' # lx /\ lpc' # "done"
            => lx'.pos > lx.pos \/ Rank(lx'.state) < Rank(lx.state)]_vars

\* the channel is closed after a scan of five tokens, one a space
C36_Witness ==
    /\ closed
    /\ Len(sent) >= 5
    /\ Terminal(Last(sent))
    /\ Typed(sent, "itemSpace") # {}

-----------------------------------------------------------------------------
\* the token types of one spelling
FixedSpellings == {"itemLeftInterpolation", "itemRightInterpolation", "itemStartDirective",
                   "itemCloseDirective", "itemEndDirective", "itemLeftParen", "itemRightParen",
                   "itemEq", "itemNeq", "itemLess", "itemLessEq", "itemDot"}

Spelling(typ) ==
    CASE typ = "itemLeftInterpolation" -> leftInterpolation
      [] typ = "itemRightInterpolation" -> rightInterpolation
      [] typ = "itemStartDirective" -> startDirective
      [] typ = "itemCloseDirective" -> <<">">>
      [] typ = "itemEndDirective" -> endDirective
      [] typ = "itemLeftParen" -> <<"(">>
      [] typ = "itemRightParen" -> <<")">>
      [] typ = "itemEq" -> <<"=", "=">>
      [] typ = "itemNeq" -> <<"!", "=">>
      [] typ = "itemLess" -> <<"<">>
      [] typ = "itemLessEq" -> <<"<", "=">>
      [] typ = "itemDot" -> <<".">>

(* C37: every token the scanner has emitted whose type has one spelling    *)
(* has that spelling as its value, and a Space token holds nothing but     *)
(* spaces and tabs: nothing the scanner has passed over is in the value of *)
(* the token that follows.                                                 *)
C37_FixedSpellings ==
    \A k \in 1..Len(Emitted) :
        /\ Emitted[k].typ \in FixedSpellings => Emitted[k].val = Spelling(Emitted[k].typ)
        /\ Emitted[k].typ = "itemSpace" => AllIn(Emitted[k].val, {" ", "\t"})

-----------------------------------------------------------------------------
(* C38: the push-back count is 0 or 1 and has never been more; no call of  *)
(* next or peek has returned from the look-ahead buffer an item other than *)
(* the last one the parser took from the lexer, and that item is in the    *)
(* first slot: what the parser consumes is what it has received, in order. *)
C38_PushBack ==
    /\ tr.peekCount \in {0, 1}
    /\ tr.maxPeek <= 1
    /\ ~tr.stale
    /\ received # <<>> => tr.token[1] = Last(received)

\* Parse has returned a tree after a push-back and three items received
C38_Witness ==
    /\ ppc = "returned"
    /\ tr.retTree = "t"
    /\ tr.maxPeek = 1
    /\ Len(received) >= 3
    /\ Typed(received, "itemSpace") # {}

-----------------------------------------------------------------------------
(* C39: IsEmptyTree of the root of a tree that Parse has returned is true  *)
(* or false, never the panic "unknown node", and no t.add() of a Parse on  *)
(* a map that has an entry ends in that panic.                             *)
C39_IsEmptyTreeTotal ==
    /\ ppc = "returned" /\ tr.retTree = "t" => IsEmptyTree(tr.Root) \in {"true", "false"}
    /\ tr.status # "panicString"

-----------------------------------------------------------------------------
\* the state functions run from the fields l on up to the first that sends
\* an item, or to the end of the loop of run
RECURSIVE ToSend(_)
ToSend(l) ==
    IF l.state = "nil" THEN [l |-> l, via |-> "return", out |-> NoItem]
    ELSE LET r == state(l)
         IN  IF r.via = "return" THEN ToSend(r.l) ELSE r

\* the scan by a lexer that never waits, from the fields l on and up to its
\* n-th send: the items sent and the fields after them (the sends of the
\* first half and, unless run has ended, those of the second from there)
RECURSIVE Scan(_, _)
Scan(l, n) ==
    IF n = 0 THEN [l |-> l, items |-> <<>>]
    ELSE IF n = 1
    THEN LET r == ToSend(l)
         IN  IF r.via = "return" THEN [l |-> r.l, items |-> <<>>]
             ELSE [l |-> sendDone(r.l, r.via), items |-> <<r.out>>]
    ELSE LET first == Scan(l, n \div 2)
             rest == Scan(first.l, n - n \div 2)
         IN  IF first.l.state = "nil" THEN first
             ELSE [l |-> rest.l, items |-> first.items \o rest.items]

\* no scan sends more items than this: an item that is not the last takes
\* at least one byte of the input
ScanLimit == Len(input) + 2

\* the k-th item a consumer gets of the scan toks: past its end, the channel
\* is closed
Handed(toks, k) == IF k <= Len(toks) THEN toks[k] ELSE ZeroItem

\* the parse of the scan toks by a parser that never waits: it has taken k
\* items and takes one more as long as it needs one
RECURSIVE Sequential(_, _)
Sequential(toks, k) ==
    LET t == Tree_Parse(tr.Name, tr.id, [i \in 1..k |-> Handed(toks, i)])
    IN  IF t.status = "need" THEN Sequential(toks, k + 1) ELSE t

\* what Parse leaves of the tree t at its return or its panic, the map
\* having no entry
Outcome(t) ==
    CASE t.status = "ok" -> [add(t, FreshSet).t EXCEPT !.retTree = "t"]
      [] t.status = "err" -> [t EXCEPT !.retTree = "nil", !.retErr = t.err]
      [] OTHER -> t

\* Parse has returned or has been aborted by a panic
Left == ppc \in {"returned", "panicked"}

(* C40: whatever the interleaving of the two goroutines, the items sent    *)
(* are the first of the scan of the input by a lexer running alone, the    *)
(* items taken by the parser and then by drain are those in that order     *)
(* (the zero item after them), and what Parse returns, tree or error or    *)
(* panic, is what a parser handed the whole scan at once returns.          *)
C40_ScheduleIndependent ==
    LET whole == Scan(lexerInit, ScanLimit)
        toks == whole.items
        taken == received \o drained
    IN  /\ whole.l.state = "nil"
        /\ Len(Emitted) <= Len(toks)
        /\ \A k \in 1..Len(Emitted) : Emitted[k] = toks[k]
        /\ \A k \in 1..Len(taken) : taken[k] = Handed(toks, k)
        /\ Left => tr = Outcome(Sequential(toks, 0))

\* Parse has returned a tree with an If after taking five items, each from a
\* lexer parked at its send or by a parser parked at its receive, and the
\* lexer goroutine has yet to close the channel
C40_Witness ==
    /\ ppc = "returned"
    /\ tr.retTree = "t"
    /\ Len(received) >= 5
    /\ ~closed
    /\ Typed(received, "itemDirectiveIf") # {}

====
